---------------------------- MODULE Spec2Model ----------------------------
(***************************************************************************)
(* zoom-hubspot-bridge: the recording webhook (main.py) as a state machine *)
(* over the CRM (HubSpot) it writes to.  Every `await` of the handler is   *)
(* a suspension point, so every awaited collaborator call is one action;   *)
(* deliveries interleave at those points and share only the CRM.           *)
(***************************************************************************)
EXTENDS Integers, Sequences, FiniteSets, TLC

(***************************************************************************)
(* Bounds of the model.                                                    *)
(***************************************************************************)
\* number of webhook deliveries handled (possibly concurrently) in one run
MaxDeliveries == 2
\* largest number of unique participants the participant lookup reports
MaxParticipants == 2

Deliveries == 1..MaxDeliveries
\* proxy links are written at the times 0..MaxIssueTime
MaxIssueTime == 1

(***************************************************************************)
(* Program constants (main.py 32-49).                                      *)
(***************************************************************************)
DISPOSITION_CONNECTED == "f240bbac-87c9-4f6e-bf70-924b57d47db7"
DISPOSITION_NO_ANSWER == "73a0d17f-1163-4015-bdd5-ec830791da20"

DEAL_STAGE_QUALIFIED == "1054943518"
DEAL_STAGE_FOLLOWUP == "1054943519"
DEAL_STAGE_SENT_CLIENT_AGREEMENT == "1054943520"
DEAL_STAGE_AGREEMENT_SIGNED == "1054943521"
DEAL_STAGE_CLOSED_LOST == "1054943524"
DEAL_STAGE_CANCELLED == "1080046258"

PROTECTED_DEAL_STAGES ==
    {DEAL_STAGE_SENT_CLIENT_AGREEMENT, DEAL_STAGE_AGREEMENT_SIGNED, DEAL_STAGE_CANCELLED}

\* a pipeline stage the program has no constant for
OTHER_STAGE == "appointmentscheduled"

Stages ==
    {DEAL_STAGE_QUALIFIED, DEAL_STAGE_FOLLOWUP, DEAL_STAGE_SENT_CLIENT_AGREEMENT,
     DEAL_STAGE_AGREEMENT_SIGNED, DEAL_STAGE_CLOSED_LOST, DEAL_STAGE_CANCELLED,
     OTHER_STAGE}

(***************************************************************************)
(* The media selector of the webhook (main.py 65-107), on lists of         *)
(* recording-file records.  A missing key is the empty string, a missing   *)
(* size is 0.  The selector returns the position of the chosen file in the *)
(* list, 0 standing for Python's None.                                     *)
(***************************************************************************)
\* str.upper() on the file-type spellings the model draws from
Upper(s) ==
    CASE s = "mp4" -> "MP4"
      [] s = "m4a" -> "M4A"
      [] s = "transcript" -> "TRANSCRIPT"
      [] s = " mp4 " -> " MP4 "
      [] OTHER -> s

\* str.lower() on the recording-kind spellings the model draws from
Lower(s) ==
    CASE s = "AUDIO_ONLY" -> "audio_only"
      [] s = "Audio_Transcript" -> "audio_transcript"
      [] OTHER -> s

NON_MEDIA_FILE_TYPES ==
    {"TRANSCRIPT", "SUMMARY", "TIMELINE", "CHAT", "CC", "TXT", "VTT", "JSON"}

NON_MEDIA_RECORDING_TYPES ==
    {"audio_transcript", "transcript", "summary", "timeline", "chat_file", "closed_caption"}

MEDIA_FILE_TYPES == {"MP4", "M4A", "MP3", "WAV"}

\* ft = (f.get('file_type') or f.get('file_extension') or '').upper()
FileTypeOf(f) == Upper(IF f.file_type # "" THEN f.file_type ELSE f.file_extension)

\* rt = (f.get('recording_type') or '').lower()
RecordingTypeOf(f) == Lower(f.recording_type)

\* f.get('download_url') or f.get('play_url')
HasUrl(f) == f.download_url # "" \/ f.play_url # ""

MinOf(S) == CHOOSE x \in S : \A y \in S : x <= y

\* the positions of the list that the first loop appends to `media`
MediaPositions(recording_files) ==
    {i \in 1..Len(recording_files) :
        /\ FileTypeOf(recording_files[i]) \notin NON_MEDIA_FILE_TYPES
        /\ RecordingTypeOf(recording_files[i]) \notin NON_MEDIA_RECORDING_TYPES
        /\ FileTypeOf(recording_files[i]) \in MEDIA_FILE_TYPES}

choose_media_recording_file(recording_files) ==
    LET media == MediaPositions(recording_files)
        audio == {i \in media : RecordingTypeOf(recording_files[i]) = "audio_only"}
        other == {i \in 1..Len(recording_files) :
                     /\ RecordingTypeOf(recording_files[i]) \notin NON_MEDIA_RECORDING_TYPES
                     /\ HasUrl(recording_files[i])}
    IN  IF Len(recording_files) = 0 THEN 0
        ELSE IF media # {}
             THEN IF audio # {} THEN MinOf(audio) ELSE MinOf(media)
             ELSE IF other # {} THEN MinOf(other) ELSE 0

(***************************************************************************)
(* The environment of one run.                                             *)
(***************************************************************************)
\* session ids (Zoom meeting ids) the conferencing platform knows
Sessions == {"s1", "s2"}
\* CRM deals; get_latest_deal orders them by recency, D2 fresher than D1
Deals == {"D1", "D2"}
\* CRM contacts
Contacts == {"c1"}

\* the people a past session's participant rows can name; the same display
\* name can come with two account emails
People ==
    {[name |-> "Ann", user_email |-> "ann@x"],
     [name |-> "Ann", user_email |-> ""],
     [name |-> "Bob", user_email |-> "bob@x"]}

RECURSIVE SeqsUpTo(_, _)
SeqsUpTo(S, n) ==
    IF n = 0 THEN {<<>>}
    ELSE SeqsUpTo(S, n - 1) \cup
         {Append(q, x) : q \in {t \in SeqsUpTo(S, n - 1) : Len(t) = n - 1}, x \in S}

AudioFile ==
    [id |-> "f1", file_type |-> "M4A", file_extension |-> "",
     recording_type |-> "audio_only", download_url |-> "u1", play_url |-> "",
     file_size |-> 1]

TranscriptFile ==
    [id |-> "f2", file_type |-> "TRANSCRIPT", file_extension |-> "",
     recording_type |-> "audio_transcript", download_url |-> "u2", play_url |-> "",
     file_size |-> 1]

NoIdFile ==
    [id |-> "", file_type |-> "mp4", file_extension |-> "",
     recording_type |-> "shared_screen_with_speaker_view", download_url |-> "u3",
     play_url |-> "", file_size |-> 2]

\* a file_size that is not a number (a JSON string such as "n/a")
NonNumericSize == -1

\* the longest recording-file list of the selection runs
MaxFiles == 3

Mp3AudioFile ==
    [id |-> "f3", file_type |-> "MP3", file_extension |-> "",
     recording_type |-> "audio_only", download_url |-> "u4", play_url |-> "",
     file_size |-> 2]

SmallVideoFile ==
    [id |-> "f4", file_type |-> "MP4", file_extension |-> "",
     recording_type |-> "shared_screen_with_speaker_view", download_url |-> "u5",
     play_url |-> "", file_size |-> 1]

LargeVideoFile ==
    [id |-> "f5", file_type |-> "MP4", file_extension |-> "",
     recording_type |-> "speaker_view", download_url |-> "u6", play_url |-> "",
     file_size |-> 3]

UnsizedVideoFile ==
    [id |-> "f6", file_type |-> "MP4", file_extension |-> "",
     recording_type |-> "gallery_view", download_url |-> "", play_url |-> "u7",
     file_size |-> 0]

BadSizeVideoFile ==
    [id |-> "f7", file_type |-> "MP4", file_extension |-> "",
     recording_type |-> "active_speaker", download_url |-> "u8", play_url |-> "",
     file_size |-> NonNumericSize]

PaddedVideoFile ==
    [id |-> "f8", file_type |-> " mp4 ", file_extension |-> "",
     recording_type |-> "shared_screen", download_url |-> "u9", play_url |-> "",
     file_size |-> 1]

WavFile ==
    [id |-> "f9", file_type |-> "WAV", file_extension |-> "",
     recording_type |-> "", download_url |-> "u10", play_url |-> "",
     file_size |-> 0]

\* a chat log that only its file type identifies
ChatFile ==
    [id |-> "f10", file_type |-> "CHAT", file_extension |-> "",
     recording_type |-> "", download_url |-> "u11", play_url |-> "",
     file_size |-> 1]

\* a closed-caption file that only its recording kind identifies
CaptionFile ==
    [id |-> "f11", file_type |-> "", file_extension |-> "",
     recording_type |-> "closed_caption", download_url |-> "u12", play_url |-> "",
     file_size |-> 1]

\* the recording files the selection runs draw their lists from
SelectorFiles ==
    {AudioFile, Mp3AudioFile, SmallVideoFile, LargeVideoFile, UnsizedVideoFile,
     BadSizeVideoFile, PaddedVideoFile, WavFile, ChatFile, CaptionFile, TranscriptFile}

SelectorFileLists == SeqsUpTo(SelectorFiles, MaxFiles)

\* the recording-file lists the platform returns for a session in the webhook runs
WebhookFileLists == {<<TranscriptFile, AudioFile>>, <<TranscriptFile>>, <<NoIdFile>>}

\* the plain tokens a validation payload can carry
PlainTokens == {"p1", "p2"}

\* the payloads a delivery can carry (main.py 189-206): the event name, the
\* validation payload's plainToken ("" when it has none), and object.id; a session's
\* recording-completed event always carries the same object (env.uuid)
Payloads ==
    {[event |-> "endpoint.url_validation", plainToken |-> t, id |-> ""] :
        t \in PlainTokens \cup {""}}
    \cup {[event |-> "meeting.started", plainToken |-> "", id |-> "s1"]}
    \cup {[event |-> "recording.completed", plainToken |-> "", id |-> s] :
            s \in Sessions \cup {""}}

VARIABLES
    env,            \* what the run cannot change: configuration, Zoom's and the CRM's fixed data
    calls,          \* CRM call records, in creation order; a call's id is its position
    callContacts,   \* CRM call-contact associations, <<call id, contact>>
    callDeals,      \* CRM call-deal associations, <<call id, deal>>
    meetingDeals,   \* CRM meeting-deal associations, per meeting (keyed by its session)
    completed,      \* meetings marked completed
    dealStage,      \* CRM dealstage of every deal
    dl,             \* the deliveries: position in the handler, locals, response
    relay,          \* the media relay: the clock, the link written, the request in hand
    batch           \* the run of a backfill or catch-up script: its loop and its results

vars == <<env, calls, callContacts, callDeals, meetingDeals, completed, dealStage, dl, relay,
          batch>>

\* a delivery before its request arrives; chosen is the position the media
\* selector returned, -1 before the selector has run
IdleDelivery ==
    [pc |-> "idle", event |-> "", zoom_meeting_id |-> "", zoom_meeting_uuid |-> FALSE,
     meeting_id |-> "", contact_ids |-> <<>>, deal_ids |-> {},
     lookup |-> "-", participant_count |-> -1, disposition |-> "-",
     call_id |-> 0, path |-> "-", deal_id |-> "-", stage |-> "-",
     updated_deal_id |-> "-", status |-> "", hubspot_call_id |-> 0,
     plainToken |-> "", encryptedToken |-> <<>>, chosen |-> -1,
     log |-> <<>>, after |-> {}]

\* the freshest deal of a set, "-" for None
Latest(deal_ids) ==
    IF "D2" \in deal_ids THEN "D2" ELSE IF "D1" \in deal_ids THEN "D1" ELSE "-"

\* the deal configurations of session s1's meeting: the deals the meeting is
\* directly associated with (md), the deals of its contact (cd), and the
\* stage of every deal.  Only the stage of the latest deal of md and of cd is
\* ever read, and a delivery reads one of the two, so the other deals keep a
\* fixed stage: every stage occurs on the direct deal and on the contact deal
DealSetups ==
    {x \in [md : {{}, {"D1"}, {"D1", "D2"}}, cd : {{}, {"D2"}}, st : [Deals -> Stages]] :
        /\ \A k \in Deals : k \notin {Latest(x.md), Latest(x.cd)} => x.st[k] = OTHER_STAGE
        /\ (x.md = {"D1"} /\ x.cd = {"D2"}) => x.st["D1"] = DEAL_STAGE_QUALIFIED}

AllSecrets == {"ZOOM_WEBHOOK_SECRET_TOKEN", "MEDIA_PROXY_SECRET"}

\* no script runs: the run has webhook or relay traffic only
NoScript == [name |-> "none", DRY_RUN |-> "unset", ONLY_CHANGES |-> "unset", users |-> <<>>]

\* session s2 is the same in every run: a classified meeting with media, no
\* contact, no deal, no uuid in its event.  The webhook and the relay share
\* no state, so a run has the traffic of one of them: these runs have the
\* webhook's events (payloads) and no relay traffic (ids)
EnvOf(secrets, files, activity, contacts, uuid, participants, x) ==
    [secrets |-> secrets,
     files |-> [s \in Sessions |-> IF s = "s1" THEN files ELSE <<TranscriptFile, AudioFile>>],
     activity |-> [s \in Sessions |-> IF s = "s1" THEN activity ELSE "typed"],
     contacts |-> [s \in Sessions |-> IF s = "s1" THEN contacts ELSE <<>>],
     uuid |-> [s \in Sessions |-> IF s = "s1" THEN uuid ELSE FALSE],
     participants |-> participants,
     contactDeals |-> x.cd, md |-> x.md, st |-> x.st,
     payloads |-> Payloads, ids |-> {}, script |-> NoScript]

NoDeals == [md |-> {}, cd |-> {}, st |-> [k \in Deals |-> OTHER_STAGE]]

\* runs that vary the deals of s1's meeting and of its contact
StageEnvs ==
    {EnvOf(AllSecrets, <<TranscriptFile, AudioFile>>, "typed", <<"c1">>, FALSE,
           [found |-> FALSE, rows |-> <<>>], x) : x \in DealSetups}
    \cup {EnvOf(AllSecrets, <<TranscriptFile, AudioFile>>, "typed", <<>>, FALSE,
                [found |-> FALSE, rows |-> <<>>], x) :
            x \in {y \in DealSetups : y.cd = {} /\ y.md # {"D1", "D2"}
                                      /\ y.st["D1"] \in {DEAL_STAGE_QUALIFIED, OTHER_STAGE}}}

\* what the platform holds about the participants of s1's past session:
\* nothing (404), or the participant rows
ParticipantData ==
    {[found |-> FALSE, rows |-> <<>>]}
    \cup {[found |-> TRUE, rows |-> q] : q \in SeqsUpTo(People, MaxParticipants)}

\* runs that vary the participants of s1's session, whose event carries a uuid
DispositionEnvs ==
    {EnvOf(AllSecrets, <<TranscriptFile, AudioFile>>, "typed", <<>>, TRUE, p, NoDeals) :
        p \in ParticipantData}

\* runs that vary what stops a delivery for s1 early
EarlyEnvs ==
    {EnvOf(sec, f, a, <<>>, FALSE, [found |-> FALSE, rows |-> <<>>], NoDeals) :
        sec \in {AllSecrets, {"ZOOM_WEBHOOK_SECRET_TOKEN"}, {"MEDIA_PROXY_SECRET"}},
        f \in WebhookFileLists, a \in {"none", "untyped", "typed"}}

\* runs that vary the recording files of s1, whose recording-completed event
\* is the one payload delivered; s1 has no CRM meeting
SelectorEnvs ==
    {[EnvOf(AllSecrets, f, "none", <<>>, FALSE, [found |-> FALSE, rows |-> <<>>], NoDeals)
        EXCEPT !.payloads = {[event |-> "recording.completed", plainToken |-> "", id |-> "s1"]}] :
        f \in SelectorFileLists}

(***************************************************************************)
(* The environment of the offline scripts (backfill_from_2025_12_18.py,    *)
(* catchup_company_yesterday.py, catchup_yesterday.py): the environment    *)
(* variables they read and what the platform lists (users, and per user    *)
(* the recorded meetings with their files).  A run of a script has no      *)
(* other webhook traffic than the script's own posts.                      *)
(***************************************************************************)
Scripts == {"backfill_from_2025_12_18", "catchup_company_yesterday", "catchup_yesterday"}

\* a meeting of a recordings listing; its files are the ones the platform
\* lists for the session
Meeting(s, files) ==
    [id |-> s, uuid |-> IF s = "s1" THEN "uu1" ELSE "uu2", recording_files |-> files]

\* runs that vary the recording files of the one recorded meeting, with
\* DRY_RUN=0
ScriptSelectionEnvs ==
    {[EnvOf(AllSecrets, f, "none", <<>>, FALSE, [found |-> FALSE, rows |-> <<>>], NoDeals)
        EXCEPT !.payloads = {},
               !.script = [name |-> n, DRY_RUN |-> "0", ONLY_CHANGES |-> "unset",
                           users |-> <<[id |-> "u1", meetings |-> <<Meeting("s1", f)>>]>>]] :
        f \in SelectorFileLists,
        n \in {"backfill_from_2025_12_18", "catchup_company_yesterday"}}

\* the deals of s1's meeting in the runs that vary the flags: a Qualified
\* deal on the meeting, a Closed-Lost deal on the contact only, no deal
ScriptDealSetups ==
    {[md |-> {"D1"}, cd |-> {},
      st |-> [k \in Deals |-> IF k = "D1" THEN DEAL_STAGE_QUALIFIED ELSE OTHER_STAGE]],
     [md |-> {}, cd |-> {"D2"},
      st |-> [k \in Deals |-> IF k = "D2" THEN DEAL_STAGE_CLOSED_LOST ELSE OTHER_STAGE]],
     NoDeals}

\* runs that vary the script and its flags: two users hold recordings, s1 is
\* listed under both, and one listed user has no id
ScriptFlagEnvs ==
    {[EnvOf(AllSecrets, <<TranscriptFile, AudioFile>>, "typed", <<"c1">>, FALSE,
            [found |-> FALSE, rows |-> <<>>], x)
        EXCEPT !.payloads = {},
               !.script =
                 [name |-> n, DRY_RUN |-> dry, ONLY_CHANGES |-> only,
                  users |-> <<[id |-> "u1",
                               meetings |-> <<Meeting("s1", <<TranscriptFile, AudioFile>>),
                                              Meeting("s2", <<TranscriptFile, AudioFile>>)>>],
                              [id |-> "", meetings |-> <<>>],
                              [id |-> "u2",
                               meetings |-> <<Meeting("s1", <<TranscriptFile, AudioFile>>)>>]>>]] :
        x \in ScriptDealSetups, n \in Scripts,
        dry \in {"unset", "1", "0", "true"}, only \in {"unset", "0"}}

\* runs in which s1's meeting is typed and has deals as above, while the
\* platform lists for s1 no file the webhook selects, or one without an id;
\* s1's recording-completed event is the one payload delivered
NoMediaEnvs ==
    {[EnvOf(AllSecrets, f, "typed", <<"c1">>, FALSE, [found |-> FALSE, rows |-> <<>>], x)
        EXCEPT !.payloads = {[event |-> "recording.completed", plainToken |-> "", id |-> "s1"]}] :
        f \in {<<TranscriptFile>>, <<NoIdFile>>}, x \in ScriptDealSetups}

(***************************************************************************)
(* The environment of the media relay (main.py 121-184).  Ids are strings  *)
(* of characters, written as sequences, so that the signed message is the  *)
(* concatenation the code builds.                                          *)
(***************************************************************************)
\* exp = int(time.time()) + (7 * 24 * 60 * 60), main.py 227
TTL == 7 * 24 * 60 * 60

\* the times of the clock: around the issuance and around the expiry
Times == (0..MaxIssueTime) \cup {TTL + k : k \in 0..(MaxIssueTime + 1)}

\* the session ids and file ids that links and relay requests name
RelayIds == {<<"1">>, <<"2">>, <<"1", ":", "2">>, <<"2", ":", "1">>}

\* the recording files the platform lists for a session in the relay runs:
\* id and download_url; sessions it does not know are answered 404
RelayRecordings ==
    [m \in {<<"1">>, <<"2">>, <<"1", ":", "2">>} |->
        IF m = <<"1">>
        THEN <<[id |-> <<"2">>, download_url |-> "u1"],
               [id |-> <<"2", ":", "1">>, download_url |-> ""]>>
        ELSE IF m = <<"1", ":", "2">> THEN <<[id |-> <<"1">>, download_url |-> "u2"]>>
        ELSE <<>>]

\* runs with relay traffic and no webhook events, with and without the
\* proxy signing secret
RelayEnvs ==
    {[EnvOf(sec, <<>>, "none", <<>>, FALSE, [found |-> FALSE, rows |-> <<>>], NoDeals)
        EXCEPT !.payloads = {}, !.ids = RelayIds] :
        sec \in {AllSecrets, {"ZOOM_WEBHOOK_SECRET_TOKEN"}}}

\* the query of a proxy URL: the ids as they stand in the URL, exp, sig
NoUrl == [meeting_id |-> <<>>, file_id |-> <<>>, exp |-> 0, sig |-> <<>>]

\* no link written yet
NoLink == [issued |-> FALSE, at |-> 0, meeting_id |-> <<>>, file_id |-> <<>>, url |-> NoUrl]

\* no upstream response yet
NoResp == [status_code |-> 0, content_type |-> "", body |-> ""]

\* the relay before any request: the clock at 0, no link written by the
\* webhook (wrote = "" until it tries), no request in hand
IdleRelay ==
    [now |-> 0, link |-> NoLink, wrote |-> "", pc |-> "idle",
     url |-> NoUrl, meeting_id |-> <<>>, file_id |-> <<>>, exp |-> 0, sig |-> <<>>,
     at |-> 0, download_url |-> "", upstream |-> <<>>, client |-> "none", answers |-> <<>>,
     resp |-> NoResp, status |-> "", media_type |-> ""]

\* no payload posted
NoPayload == [event |-> "", plainToken |-> "", id |-> ""]

\* a script before it starts: all_meetings and results are the lists of main(),
\* i the position of the loop over all_meetings, recording_files and
\* recording_url the file list of the last meeting passed to post_to_webhook
\* and the selector's result for it ("-" before any),
\* posts the number of POSTs sent, payload the POST in flight
IdleBatch ==
    [pc |-> "start", all_meetings |-> <<>>, i |-> 1, results |-> <<>>,
     recording_files |-> <<>>, recording_url |-> "-", posts |-> 0, payload |-> NoPayload]

Init ==
    /\ env \in StageEnvs \cup EarlyEnvs \cup DispositionEnvs \cup RelayEnvs \cup SelectorEnvs
               \cup ScriptSelectionEnvs \cup ScriptFlagEnvs \cup NoMediaEnvs
    /\ relay = IdleRelay
    /\ batch = IdleBatch
    /\ calls = <<>>
    /\ callContacts = {}
    /\ callDeals = {}
    /\ meetingDeals = [s \in Sessions |-> IF s = "s1" THEN env.md ELSE {}]
    /\ completed = {}
    /\ dealStage = env.st
    /\ dl = [d \in Deliveries |-> IdleDelivery]

(***************************************************************************)
(* Helpers of the actions.                                                 *)
(***************************************************************************)
\* the handler returns: a status response, or an HTTP error for the statuses
\* http_400 (HTTPException 400), http_500_not_configured (HTTPException 500)
\* and error_unhandled (an exception nobody catches: the framework answers 500)
Return(r, status) == [r EXCEPT !.pc = "done", !.status = status]

ErrorStatuses == {"http_400", "http_500_not_configured", "error_unhandled"}

\* the delivery issues a CRM write request: the log keeps the requests in
\* order, with the deal named, the deal's stage in the CRM at that moment
\* and how the request ended
Logged(r, op, deal, out) ==
    [r EXCEPT !.log = Append(@, [op |-> op, deal |-> deal,
                                 was |-> IF deal \in Deals THEN dealStage[deal] ELSE "-",
                                 out |-> out])]

SetDelivery(d, r) == dl' = [dl EXCEPT ![d] = r]

(***************************************************************************)
(* Disposition (main.py 260-270, zoom_client 40-67).                       *)
(***************************************************************************)
\* how one participant lookup can go: the token fetch fails, the request gets
\* no response, the platform answers with an HTTP error other than 404, or it
\* answers from its data (404 when it does not know the past session)
LookupOutcomes == {"token_error", "transport_error", "http_error", "answer"}

\* zoom_client 40-67: the count returned, or raised = TRUE when it raises
get_participant_count(outcome, data) ==
    IF outcome \in {"token_error", "transport_error"} THEN [raised |-> TRUE, count |-> -1]
    ELSE IF outcome = "answer" /\ ~data.found THEN [raised |-> FALSE, count |-> 1]
    ELSE IF outcome = "http_error" THEN [raised |-> TRUE, count |-> -1]
    ELSE [raised |-> FALSE,
          count |-> Cardinality({<<data.rows[i].name, data.rows[i].user_email>> :
                                    i \in 1..Len(data.rows)})]

\* DispositionOf with the failed lookup read as a count of zero
DispositionOf_FailureIsNoAnswer(res) ==
    IF res.raised \/ res.count <= 1 THEN DISPOSITION_NO_ANSWER ELSE DISPOSITION_CONNECTED

\* main.py 261-270: the disposition from the lookup's result
DispositionOf(res) ==
    IF ~res.raised /\ res.count <= 1 THEN DISPOSITION_NO_ANSWER ELSE DISPOSITION_CONNECTED

(***************************************************************************)
(* zoom_recording_webhook, main.py 187-367.  Every await is a suspension  *)
(* point.  The awaits that read only what no delivery changes (Zoom's      *)
(* recording list and participants, the CRM meeting and its contacts) are  *)
(* taken together with the step next to them: no other delivery can tell   *)
(* when they run.  Every await that reads or writes what deliveries change *)
(* (calls, associations, deal stages) is an action of its own.             *)
(***************************************************************************)
\* the requests that can arrive as delivery d: the run's webhook traffic, and
\* the POST of a script when it is the d-th it sent and awaits its response
PayloadsFor(d) ==
    env.payloads \cup (IF batch.pc = "post" /\ batch.posts = d THEN {batch.payload} ELSE {})

\* hmac.new(key, msg, sha256).hexdigest(), with the hash idealised: the digest
\* is determined by the key and the message, and differs whenever they differ
hmac_hexdigest(key, msg) == <<key, msg>>

\* main.py 109-118, once the secret is known to be set (Receive raises the
\* configuration error otherwise); keys are named by their setting
zoom_encrypted_token(plain_token) == hmac_hexdigest("ZOOM_WEBHOOK_SECRET_TOKEN", plain_token)

\* Receive that signs the event name in place of the plain token
Receive_DigestOfEvent(d) ==
    /\ dl[d].pc = "idle"
    /\ IF d = 1 THEN TRUE ELSE dl[d - 1].pc # "idle"
    /\ \E p \in PayloadsFor(d) :
         LET r == [dl[d] EXCEPT !.event = p.event,
                                !.after = {e \in Deliveries : dl[e].pc = "done"}]
         IN  SetDelivery(d,
               IF p.event = "endpoint.url_validation"
               THEN IF p.plainToken = "" THEN Return(r, "http_400")
                    ELSE IF "ZOOM_WEBHOOK_SECRET_TOKEN" \notin env.secrets
                         THEN Return(r, "http_500_not_configured")
                         ELSE Return([r EXCEPT
                                        !.plainToken = p.plainToken,
                                        !.encryptedToken = zoom_encrypted_token(p.event)],
                                     "url_validated")
               ELSE IF p.event # "recording.completed" THEN Return(r, "ignored_event")
               ELSE IF p.id = "" THEN Return(r, "http_400")
               ELSE [r EXCEPT !.zoom_meeting_id = p.id,
                              !.zoom_meeting_uuid = env.uuid[p.id],
                              !.pc = "get_meeting_recordings"])
    /\ UNCHANGED <<env, relay, batch, calls, callContacts, callDeals, meetingDeals, completed, dealStage>>

\* Receive without the check of the session id
Receive_NoSessionIdCheck(d) ==
    /\ dl[d].pc = "idle"
    /\ IF d = 1 THEN TRUE ELSE dl[d - 1].pc # "idle"
    /\ \E p \in PayloadsFor(d) :
         LET r == [dl[d] EXCEPT !.event = p.event,
                                !.after = {e \in Deliveries : dl[e].pc = "done"}]
         IN  SetDelivery(d,
               IF p.event = "endpoint.url_validation"
               THEN IF p.plainToken = "" THEN Return(r, "http_400")
                    ELSE IF "ZOOM_WEBHOOK_SECRET_TOKEN" \notin env.secrets
                         THEN Return(r, "http_500_not_configured")
                         ELSE Return([r EXCEPT
                                        !.plainToken = p.plainToken,
                                        !.encryptedToken = zoom_encrypted_token(p.plainToken)],
                                     "url_validated")
               ELSE IF p.event # "recording.completed" THEN Return(r, "ignored_event")
               ELSE [r EXCEPT !.zoom_meeting_id = p.id,
                              !.zoom_meeting_uuid = IF p.id = "" THEN FALSE ELSE env.uuid[p.id],
                              !.pc = "get_meeting_recordings"])
    /\ UNCHANGED <<env, relay, batch, calls, callContacts, callDeals, meetingDeals, completed, dealStage>>

\* 189-209: the request arrives; URL validation, event type, session id.
\* Deliveries are interchangeable, so they are numbered in arrival order.
Receive(d) ==
    /\ dl[d].pc = "idle"
    /\ IF d = 1 THEN TRUE ELSE dl[d - 1].pc # "idle"
    /\ \E p \in PayloadsFor(d) :
         LET r == [dl[d] EXCEPT !.event = p.event,
                                !.after = {e \in Deliveries : dl[e].pc = "done"}]
         IN  SetDelivery(d,
               IF p.event = "endpoint.url_validation"
               THEN IF p.plainToken = "" THEN Return(r, "http_400")
                    ELSE IF "ZOOM_WEBHOOK_SECRET_TOKEN" \notin env.secrets
                         THEN Return(r, "http_500_not_configured")
                         ELSE Return([r EXCEPT
                                        !.plainToken = p.plainToken,
                                        !.encryptedToken = zoom_encrypted_token(p.plainToken)],
                                     "url_validated")
               ELSE IF p.event # "recording.completed" THEN Return(r, "ignored_event")
               ELSE IF p.id = "" THEN Return(r, "http_400")
               ELSE [r EXCEPT !.zoom_meeting_id = p.id,
                              !.zoom_meeting_uuid = env.uuid[p.id],
                              !.pc = "get_meeting_recordings"])
    /\ UNCHANGED <<env, relay, batch, calls, callContacts, callDeals, meetingDeals, completed, dealStage>>

\* MatchMeeting that requires the activity type before it tests the match
MatchMeeting_TypeBeforeMatch(d) ==
    /\ dl[d].pc = "get_meeting_recordings"
    /\ \E out \in {"ok", "get_meeting_recordings", "search_meeting_by_zoom_id",
                   "get_meeting_contact_ids"} :
         LET recording_files == env.files[dl[d].zoom_meeting_id]
             chosen == choose_media_recording_file(recording_files)
             r == [dl[d] EXCEPT !.chosen = IF out = "get_meeting_recordings" THEN @ ELSE chosen]
             activity == env.activity[r.zoom_meeting_id]
         IN  SetDelivery(d,
               IF out = "get_meeting_recordings" THEN Return(r, "error_unhandled")
               ELSE IF chosen = 0 THEN Return(r, "ignored_no_media_recording_file")
               ELSE IF recording_files[chosen].id = ""
                    THEN Return(r, "ignored_no_recording_file_id")
               ELSE IF "MEDIA_PROXY_SECRET" \notin env.secrets
                    THEN Return(r, "http_500_not_configured")
               ELSE IF out = "search_meeting_by_zoom_id" THEN Return(r, "error_unhandled")
               ELSE IF activity # "typed"
                    THEN Return([r EXCEPT !.meeting_id = r.zoom_meeting_id],
                                "ignored_missing_activity_type")
               ELSE IF out = "get_meeting_contact_ids" THEN Return(r, "error_unhandled")
               ELSE [r EXCEPT !.meeting_id = r.zoom_meeting_id,
                              !.contact_ids = env.contacts[r.zoom_meeting_id],
                              !.pc = "get_meeting_deal_ids"])
    /\ UNCHANGED <<env, relay, batch, calls, callContacts, callDeals, meetingDeals, completed, dealStage>>

\* 213-250: fetch the recording list (zoom_client 70-89 raises on a token or
\* HTTP failure), select the media file, sign the proxy link, match the CRM
\* meeting (hubspot_client 15-47), require its activity type, read its
\* contacts (hubspot_client 83-99); `out` names the first call that raises
MatchMeeting(d) ==
    /\ dl[d].pc = "get_meeting_recordings"
    /\ \E out \in {"ok", "get_meeting_recordings", "search_meeting_by_zoom_id",
                   "get_meeting_contact_ids"} :
         LET recording_files == env.files[dl[d].zoom_meeting_id]
             chosen == choose_media_recording_file(recording_files)
             r == [dl[d] EXCEPT !.chosen = IF out = "get_meeting_recordings" THEN @ ELSE chosen]
             activity == env.activity[r.zoom_meeting_id]
         IN  SetDelivery(d,
               IF out = "get_meeting_recordings" THEN Return(r, "error_unhandled")
               ELSE IF chosen = 0 THEN Return(r, "ignored_no_media_recording_file")
               ELSE IF recording_files[chosen].id = ""
                    THEN Return(r, "ignored_no_recording_file_id")
               ELSE IF "MEDIA_PROXY_SECRET" \notin env.secrets
                    THEN Return(r, "http_500_not_configured")
               ELSE IF out = "search_meeting_by_zoom_id" THEN Return(r, "error_unhandled")
               ELSE IF activity = "none" THEN Return(r, "ignored_no_matching_meeting")
               ELSE IF activity = "untyped"
                    THEN Return([r EXCEPT !.meeting_id = r.zoom_meeting_id],
                                "ignored_missing_activity_type")
               ELSE IF out = "get_meeting_contact_ids" THEN Return(r, "error_unhandled")
               ELSE [r EXCEPT !.meeting_id = r.zoom_meeting_id,
                              !.contact_ids = env.contacts[r.zoom_meeting_id],
                              !.pc = "get_meeting_deal_ids"])
    /\ UNCHANGED <<env, relay, batch, calls, callContacts, callDeals, meetingDeals, completed, dealStage>>

\* 251-272: the meeting's directly associated deals (hubspot_client 102-118,
\* raises on an HTTP failure); the primary contact's name (fetched under
\* try/except, it only feeds the call title); the participant lookup, made
\* only when the event has a uuid
GetMeetingDealIds(d) ==
    /\ dl[d].pc = "get_meeting_deal_ids"
    /\ LET r == dl[d]
       IN  \/ SetDelivery(d, Return(r, "error_unhandled"))
           \/ /\ ~r.zoom_meeting_uuid
              /\ SetDelivery(d, [r EXCEPT !.deal_ids = meetingDeals[r.meeting_id],
                                          !.disposition = DISPOSITION_CONNECTED,
                                          !.pc = "find_existing_call"])
           \/ /\ r.zoom_meeting_uuid
              /\ \E outcome \in LookupOutcomes :
                   LET res == get_participant_count(outcome, env.participants)
                   IN  SetDelivery(d, [r EXCEPT !.deal_ids = meetingDeals[r.meeting_id],
                                                !.lookup = outcome,
                                                !.participant_count = res.count,
                                                !.disposition = DispositionOf(res),
                                                !.pc = "find_existing_call"])
    /\ UNCHANGED <<env, relay, batch, calls, callContacts, callDeals, meetingDeals, completed, dealStage>>

(***************************************************************************)
(* The idempotency pre-check and the call write (main.py 274-293).         *)
(***************************************************************************)
\* the ids of the CRM calls tagged with the session id
find_existing_call_by_zoom_meeting_id(zoom_meeting_id) ==
    {i \in 1..Len(calls) : calls[i].zoom_meeting_id = zoom_meeting_id}

\* FindExistingCall that reports the duplicate without the existing call's id
FindExistingCall_NoId(d) ==
    /\ dl[d].pc = "find_existing_call"
    /\ LET r == dl[d]
           existing == find_existing_call_by_zoom_meeting_id(r.zoom_meeting_id)
       IN  \/ SetDelivery(d, Return(r, "error_unhandled"))
           \/ /\ existing = {}
              /\ SetDelivery(d, [r EXCEPT !.pc = "create_call_for_meeting"])
           \/ /\ existing # {}
              /\ SetDelivery(d, Return(r, "duplicate_ignored"))
    /\ UNCHANGED <<env, relay, batch, calls, callContacts, callDeals, meetingDeals, completed, dealStage>>

\* FindExistingCall that never short-circuits
FindExistingCall_NoShortCircuit(d) ==
    /\ dl[d].pc = "find_existing_call"
    /\ \/ SetDelivery(d, Return(dl[d], "error_unhandled"))
       \/ SetDelivery(d, [dl[d] EXCEPT !.pc = "create_call_for_meeting"])
    /\ UNCHANGED <<env, relay, batch, calls, callContacts, callDeals, meetingDeals, completed, dealStage>>

\* FindExistingCall that marks the meeting completed before reporting the duplicate
FindExistingCall_CompletesOnDuplicate(d) ==
    /\ dl[d].pc = "find_existing_call"
    /\ LET r == dl[d]
           existing == find_existing_call_by_zoom_meeting_id(r.zoom_meeting_id)
       IN  \/ /\ SetDelivery(d, Return(r, "error_unhandled"))
              /\ UNCHANGED completed
           \/ /\ existing = {}
              /\ SetDelivery(d, [r EXCEPT !.pc = "create_call_for_meeting"])
              /\ UNCHANGED completed
           \/ \E i \in existing :
                /\ completed' = completed \cup {r.meeting_id}
                /\ SetDelivery(d, Return([Logged(r, "mark_meeting_completed", "-", "ok")
                                            EXCEPT !.hubspot_call_id = i],
                                         "duplicate_ignored"))
    /\ UNCHANGED <<env, relay, batch, calls, callContacts, callDeals, meetingDeals, dealStage>>

\* FindExistingCall that marks the meeting completed before the call is created
FindExistingCall_CompletesFirst(d) ==
    /\ dl[d].pc = "find_existing_call"
    /\ LET r == dl[d]
           existing == find_existing_call_by_zoom_meeting_id(r.zoom_meeting_id)
       IN  \/ /\ SetDelivery(d, Return(r, "error_unhandled"))
              /\ UNCHANGED completed
           \/ /\ existing = {}
              /\ completed' = completed \cup {r.meeting_id}
              /\ SetDelivery(d, [Logged(r, "mark_meeting_completed", "-", "ok")
                                   EXCEPT !.pc = "create_call_for_meeting"])
           \/ \E i \in existing :
                /\ SetDelivery(d, Return([r EXCEPT !.hubspot_call_id = i],
                                         "duplicate_ignored"))
                /\ UNCHANGED completed
    /\ UNCHANGED <<env, relay, batch, calls, callContacts, callDeals, meetingDeals, dealStage>>

\* FindExistingCall that, finding a call, takes it up and goes on with the
\* deal-stage logic instead of returning
FindExistingCall_ResumesOnDuplicate(d) ==
    /\ dl[d].pc = "find_existing_call"
    /\ LET r == dl[d]
           existing == find_existing_call_by_zoom_meeting_id(r.zoom_meeting_id)
       IN  \/ SetDelivery(d, Return(r, "error_unhandled"))
           \/ /\ existing = {}
              /\ SetDelivery(d, [r EXCEPT !.pc = "create_call_for_meeting"])
           \/ \E i \in existing :
                SetDelivery(d, [r EXCEPT !.call_id = i, !.pc = "get_latest_deal"])
    /\ UNCHANGED <<env, relay, batch, calls, callContacts, callDeals, meetingDeals, completed, dealStage>>

\* 274-278: an existing call short-circuits the delivery
FindExistingCall(d) ==
    /\ dl[d].pc = "find_existing_call"
    /\ LET r == dl[d]
           existing == find_existing_call_by_zoom_meeting_id(r.zoom_meeting_id)
       IN  \/ SetDelivery(d, Return(r, "error_unhandled"))
           \/ /\ existing = {}
              /\ SetDelivery(d, [r EXCEPT !.pc = "create_call_for_meeting"])
           \/ \E i \in existing :
                SetDelivery(d, Return([r EXCEPT !.hubspot_call_id = i], "duplicate_ignored"))
    /\ UNCHANGED <<env, relay, batch, calls, callContacts, callDeals, meetingDeals, completed, dealStage>>

\* 281-293: create the call (hubspot_client 121-180 raises on an HTTP failure)
CreateCall(d) ==
    /\ dl[d].pc = "create_call_for_meeting"
    /\ \E out \in {"ok", "raise"} :
         LET r == Logged(dl[d], "create_call_for_meeting", "-", out)
         IN  IF out = "raise"
             THEN /\ SetDelivery(d, Return(r, "error_unhandled"))
                  /\ UNCHANGED calls
             ELSE /\ calls' = Append(calls, [zoom_meeting_id |-> r.zoom_meeting_id,
                                             disposition |-> r.disposition, by |-> d])
                  /\ SetDelivery(d, [r EXCEPT !.call_id = Len(calls) + 1,
                                              !.pc = "associate_call_to_contacts"])
    /\ UNCHANGED <<env, relay, batch, callContacts, callDeals, meetingDeals, completed, dealStage>>

(***************************************************************************)
(* Associations of the new call (main.py 295-296, hubspot_client 183-212). *)
(***************************************************************************)
\* what a batch-associate request can end in: 2xx, a status >= 400 (printed
\* and swallowed), or no response at all (httpx raises out of client.post)
AssociateOutcomes == {"ok", "http_error", "transport_error"}

\* 295: associate_call_to_contacts; no request when the list is empty
AssociateCallToContacts(d) ==
    /\ dl[d].pc = "associate_call_to_contacts"
    /\ LET r == dl[d]
       IN  IF r.contact_ids = <<>>
           THEN /\ SetDelivery(d, [r EXCEPT !.pc = "associate_call_to_deals"])
                /\ UNCHANGED callContacts
           ELSE \E out \in AssociateOutcomes :
                  LET q == Logged(r, "associate_call_to_contacts", "-", out)
                  IN  /\ callContacts' =
                           IF out = "ok"
                           THEN callContacts \cup
                                {<<r.call_id, r.contact_ids[i]>> : i \in 1..Len(r.contact_ids)}
                           ELSE callContacts
                      /\ SetDelivery(d, IF out = "transport_error"
                                        THEN Return(q, "error_unhandled")
                                        ELSE [q EXCEPT !.pc = "associate_call_to_deals"])
    /\ UNCHANGED <<env, relay, batch, calls, callDeals, meetingDeals, completed, dealStage>>

\* 296: associate_call_to_deals with the meeting's deals
AssociateCallToDeals(d) ==
    /\ dl[d].pc = "associate_call_to_deals"
    /\ LET r == dl[d]
       IN  IF r.deal_ids = {}
           THEN /\ SetDelivery(d, [r EXCEPT !.pc = "get_latest_deal"])
                /\ UNCHANGED callDeals
           ELSE \E out \in AssociateOutcomes :
                  LET q == Logged(r, "associate_call_to_deals", "-", out)
                  IN  /\ callDeals' =
                           IF out = "ok"
                           THEN callDeals \cup {<<r.call_id, k>> : k \in r.deal_ids}
                           ELSE callDeals
                      /\ SetDelivery(d, IF out = "transport_error"
                                        THEN Return(q, "error_unhandled")
                                        ELSE [q EXCEPT !.pc = "get_latest_deal"])
    /\ UNCHANGED <<env, relay, batch, calls, callContacts, meetingDeals, completed, dealStage>>

(***************************************************************************)
(* Deal-stage update logic (main.py 298-351).                              *)
(***************************************************************************)
\* the latest of the given deals, read from the CRM now
get_latest_deal(deal_ids) == Latest(deal_ids)

\* the latest deal across the deals of the given contacts
get_latest_deal_from_contacts(contact_ids) ==
    IF contact_ids = <<>> THEN "-" ELSE Latest(env.contactDeals)

\* the CRM after the meeting is associated to the deals
associate_meeting_to_deals(meeting_id, deal_ids) ==
    [meetingDeals EXCEPT ![meeting_id] = @ \cup deal_ids]

\* the CRM after the deal's stage is set
update_deal_stage(deal_id, stage) == [dealStage EXCEPT ![deal_id] = stage]

\* the CRM after the meeting is marked completed
mark_meeting_completed(meeting_id) == completed \cup {meeting_id}

\* DirectDecision with the fallback path's eligibility
DirectDecision_AlsoClosedLost(stage) ==
    IF stage \in PROTECTED_DEAL_STAGES THEN "skip_protected"
    ELSE IF stage \in {DEAL_STAGE_QUALIFIED, DEAL_STAGE_CLOSED_LOST} THEN "update"
    ELSE "not_eligible"

\* 318-325: what the direct path does with the latest meeting deal's stage
DirectDecision(stage) ==
    IF stage \in PROTECTED_DEAL_STAGES THEN "skip_protected"
    ELSE IF stage = DEAL_STAGE_QUALIFIED THEN "update"
    ELSE "not_eligible"

\* FallbackDecision with the direct path's eligibility
FallbackDecision_QualifiedOnly(stage) ==
    IF stage \in PROTECTED_DEAL_STAGES THEN "skip_protected"
    ELSE IF stage = DEAL_STAGE_QUALIFIED THEN "update"
    ELSE "not_eligible"

\* FallbackDecision without the protected-stage guard
FallbackDecision_NoProtectedGuard(stage) ==
    IF stage = DEAL_STAGE_FOLLOWUP THEN "not_eligible" ELSE "update"

\* 342-349: what the contact-fallback path does with the contact deal's stage
FallbackDecision(stage) ==
    IF stage \in PROTECTED_DEAL_STAGES THEN "skip_protected"
    ELSE IF stage \in {DEAL_STAGE_QUALIFIED, DEAL_STAGE_CLOSED_LOST} THEN "update"
    ELSE "not_eligible"

\* 299-303, 314-326: the latest deal among the meeting's deals; a failed
\* lookup is caught and leaves None, and None sends the delivery to the
\* contact fallback
GetLatestDeal(d) ==
    /\ dl[d].pc = "get_latest_deal"
    /\ \E out \in {"ok", "raise"} :
         LET r == dl[d]
             latest_meeting_deal == IF out = "raise" THEN "-" ELSE get_latest_deal(r.deal_ids)
         IN  SetDelivery(d,
               IF latest_meeting_deal # "-"
               THEN [r EXCEPT !.path = "direct",
                              !.deal_id = latest_meeting_deal,
                              !.stage = dealStage[latest_meeting_deal],
                              !.pc = IF DirectDecision(dealStage[latest_meeting_deal]) = "update"
                                     THEN "update_deal_stage"
                                     ELSE "mark_meeting_completed"]
               ELSE [r EXCEPT !.path = "fallback",
                              !.pc = "get_latest_deal_from_contacts"])
    /\ UNCHANGED <<env, relay, batch, calls, callContacts, callDeals, meetingDeals, completed, dealStage>>

\* 328-336, 350-351: the latest deal across the contacts; a failed lookup is
\* caught and leaves None
GetLatestDealFromContacts(d) ==
    /\ dl[d].pc = "get_latest_deal_from_contacts"
    /\ \E out \in {"ok", "raise"} :
         LET r == dl[d]
             contact_deal == IF out = "raise" THEN "-"
                             ELSE get_latest_deal_from_contacts(r.contact_ids)
         IN  SetDelivery(d,
               IF contact_deal # "-"
               THEN [r EXCEPT !.deal_id = contact_deal,
                              !.stage = dealStage[contact_deal],
                              !.pc = "associate_call_to_contact_deal"]
               ELSE [r EXCEPT !.pc = "mark_meeting_completed"])
    /\ UNCHANGED <<env, relay, batch, calls, callContacts, callDeals, meetingDeals, completed, dealStage>>

\* 339: associate the contact deal to the call
AssociateCallToContactDeal(d) ==
    /\ dl[d].pc = "associate_call_to_contact_deal"
    /\ \E out \in AssociateOutcomes :
         LET r == Logged(dl[d], "associate_call_to_deals", dl[d].deal_id, out)
         IN  /\ callDeals' = IF out = "ok" THEN callDeals \cup {<<r.call_id, r.deal_id>>}
                             ELSE callDeals
             /\ SetDelivery(d, IF out = "transport_error"
                               THEN Return(r, "error_unhandled")
                               ELSE [r EXCEPT !.pc = "associate_meeting_to_deals"])
    /\ UNCHANGED <<env, relay, batch, calls, callContacts, meetingDeals, completed, dealStage>>

\* AssociateMeetingToDeals that looks at the stage first and leaves a deal
\* it will not update unassociated from the meeting
AssociateMeetingToDeals_StageFirst(d) ==
    /\ dl[d].pc = "associate_meeting_to_deals"
    /\ \E out \in AssociateOutcomes :
         LET r == Logged(dl[d], "associate_meeting_to_deals", dl[d].deal_id, out)
         IN  IF FallbackDecision(dl[d].stage) # "update"
             THEN /\ UNCHANGED meetingDeals
                  /\ SetDelivery(d, [dl[d] EXCEPT !.pc = "mark_meeting_completed"])
             ELSE /\ meetingDeals' =
                       IF out = "ok"
                       THEN [meetingDeals EXCEPT ![r.meeting_id] = @ \cup {r.deal_id}]
                       ELSE meetingDeals
                  /\ SetDelivery(d, IF out = "transport_error"
                                    THEN Return(r, "error_unhandled")
                                    ELSE [r EXCEPT !.pc = "update_deal_stage"])
    /\ UNCHANGED <<env, relay, batch, calls, callContacts, callDeals, completed, dealStage>>

\* 340-349: associate the contact deal to the meeting, then decide on its stage
AssociateMeetingToDeals(d) ==
    /\ dl[d].pc = "associate_meeting_to_deals"
    /\ \E out \in AssociateOutcomes :
         LET r == Logged(dl[d], "associate_meeting_to_deals", dl[d].deal_id, out)
         IN  /\ meetingDeals' =
                  IF out = "ok"
                  THEN [meetingDeals EXCEPT ![r.meeting_id] = @ \cup {r.deal_id}]
                  ELSE meetingDeals
             /\ SetDelivery(d, IF out = "transport_error"
                               THEN Return(r, "error_unhandled")
                               ELSE [r EXCEPT !.pc = IF FallbackDecision(r.stage) = "update"
                                                     THEN "update_deal_stage"
                                                     ELSE "mark_meeting_completed"])
    /\ UNCHANGED <<env, relay, batch, calls, callContacts, callDeals, completed, dealStage>>

\* UpdateDealStage that chains a second hop, past Followup
UpdateDealStage_Chains(d) ==
    /\ dl[d].pc = "update_deal_stage"
    /\ LET r == Logged(Logged(dl[d], "update_deal_stage", dl[d].deal_id, "ok"),
                       "update_deal_stage", dl[d].deal_id, "ok")
       IN  /\ dealStage' = update_deal_stage(r.deal_id, DEAL_STAGE_SENT_CLIENT_AGREEMENT)
           /\ SetDelivery(d, [r EXCEPT !.updated_deal_id = r.deal_id,
                                       !.pc = "mark_meeting_completed"])
    /\ UNCHANGED <<env, relay, batch, calls, callContacts, callDeals, meetingDeals, completed>>

\* 321-323 and 345-347: update_deal_stage(deal_id, DEAL_STAGE_FOLLOWUP), not
\* under try/except
UpdateDealStage(d) ==
    /\ dl[d].pc = "update_deal_stage"
    /\ \E out \in {"ok", "raise"} :
         LET r == Logged(dl[d], "update_deal_stage", dl[d].deal_id, out)
         IN  IF out = "raise"
             THEN /\ SetDelivery(d, Return(r, "error_unhandled"))
                  /\ UNCHANGED dealStage
             ELSE /\ dealStage' = update_deal_stage(r.deal_id, DEAL_STAGE_FOLLOWUP)
                  /\ SetDelivery(d, [r EXCEPT !.updated_deal_id = r.deal_id,
                                              !.pc = "mark_meeting_completed"])
    /\ UNCHANGED <<env, relay, batch, calls, callContacts, callDeals, meetingDeals, completed>>

\* 353-367: mark the meeting completed (a failure is caught) and return ok
MarkMeetingCompleted(d) ==
    /\ dl[d].pc = "mark_meeting_completed"
    /\ \E out \in {"ok", "raise"} :
         LET r == Logged(dl[d], "mark_meeting_completed", "-", out)
         IN  /\ completed' = IF out = "ok" THEN mark_meeting_completed(r.meeting_id)
                             ELSE completed
             /\ SetDelivery(d, Return([r EXCEPT !.hubspot_call_id = r.call_id], "ok"))
    /\ UNCHANGED <<env, relay, batch, calls, callContacts, callDeals, meetingDeals, dealStage>>

(***************************************************************************)
(* The signed proxy link and the media relay (main.py 121-184,             *)
(* zoom_client 104-162).                                                   *)
(***************************************************************************)
\* urllib.parse.quote on the characters of the ids: ':' and '%' are escaped
RECURSIVE quote(_)
quote(s) ==
    IF s = <<>> THEN <<>>
    ELSE (IF Head(s) = ":" THEN <<"%", "3", "A">>
          ELSE IF Head(s) = "%" THEN <<"%", "2", "5">>
          ELSE <<Head(s)>>) \o quote(Tail(s))

\* the framework's decoding of a query value: %XX back to the character
RECURSIVE unquote(_)
unquote(s) ==
    IF s = <<>> THEN <<>>
    ELSE IF Head(s) = "%" /\ Len(s) >= 3
         THEN <<(IF <<s[2], s[3]>> = <<"3", "A">> THEN ":"
                 ELSE IF <<s[2], s[3]>> = <<"2", "5">> THEN "%" ELSE "?")>>
              \o unquote(SubSeq(s, 4, Len(s)))
         ELSE <<Head(s)>> \o unquote(Tail(s))

\* the decimal digits of a natural number, as f"{exp}" writes them
RECURSIVE str(_)
str(n) ==
    LET digit == <<"0", "1", "2", "3", "4", "5", "6", "7", "8", "9">>[(n % 10) + 1]
    IN  IF n < 10 THEN <<digit>> ELSE Append(str(n \div 10), digit)

\* msg = f"{meeting_id}:{file_id}:{exp}", main.py 124
ProxyMessage(meeting_id, file_id, exp) ==
    meeting_id \o <<":">> \o file_id \o <<":">> \o str(exp)

\* the value of MEDIA_PROXY_SECRET: the empty string when it is not set
ProxyKey == IF "MEDIA_PROXY_SECRET" \in env.secrets THEN "MEDIA_PROXY_SECRET" ELSE ""

\* proxy_sig that signs with whatever the secret is, the empty key included
proxy_sig_NoGuard(meeting_id, file_id, exp) ==
    [raised |-> FALSE, sig |-> hmac_hexdigest(ProxyKey, ProxyMessage(meeting_id, file_id, exp))]

\* _proxy_sig, main.py 121-125: raises the configuration error when the
\* secret is empty
proxy_sig(meeting_id, file_id, exp) ==
    IF ProxyKey = "" THEN [raised |-> TRUE, sig |-> <<>>]
    ELSE [raised |-> FALSE,
          sig |-> hmac_hexdigest(ProxyKey, ProxyMessage(meeting_id, file_id, exp))]

\* _build_proxy_url, main.py 128-137: the query of the URL, the ids quoted
build_proxy_url(meeting_id, file_id, exp) ==
    LET s == proxy_sig(meeting_id, file_id, exp)
    IN  [raised |-> s.raised,
         url |-> [meeting_id |-> quote(meeting_id), file_id |-> quote(file_id),
                  exp |-> exp, sig |-> s.sig]]

\* time passes while the relay is idle
Tick ==
    /\ env.ids # {}
    /\ relay.pc = "idle"
    /\ \E t \in Times : t > relay.now /\ relay' = [relay EXCEPT !.now = t]
    /\ UNCHANGED <<env, batch, calls, callContacts, callDeals, meetingDeals, completed, dealStage, dl>>

\* main.py 226-228: the webhook writes the proxy link of a session's media
\* file at the current time, or fails on the missing secret
WriteProxyLink ==
    /\ relay.pc = "idle" /\ relay.wrote = "" /\ relay.now <= MaxIssueTime
    /\ \E meeting_id \in env.ids : \E file_id \in env.ids :
         LET exp == relay.now + TTL
             built == build_proxy_url(meeting_id, file_id, exp)
         IN  relay' = IF built.raised
                      THEN [relay EXCEPT !.wrote = "http_500_not_configured"]
                      ELSE [relay EXCEPT !.wrote = "ok",
                                         !.link = [issued |-> TRUE, at |-> relay.now,
                                                   meeting_id |-> meeting_id,
                                                   file_id |-> file_id,
                                                   url |-> built.url]]
    /\ UNCHANGED <<env, batch, calls, callContacts, callDeals, meetingDeals, completed, dealStage, dl>>

\* a signature that differs from sig in its last character
Mutated(sig) == IF sig = <<>> THEN <<"x">> ELSE <<sig[1], Append(sig[2], "x")>>

\* the URLs a caller can request: the link as written or with a later exp,
\* and URLs it builds itself for any ids, signed with the link's signature,
\* with that signature mutated, or with a digest under the empty key
RequestUrls ==
    LET exps == IF relay.link.issued THEN {relay.link.url.exp, relay.link.url.exp + 1}
                ELSE {TTL}
        sigs(m, f, e) ==
            {hmac_hexdigest("", ProxyMessage(m, f, e))}
            \cup (IF relay.link.issued
                  THEN {relay.link.url.sig, Mutated(relay.link.url.sig)}
                  ELSE {})
    IN  UNION {{[meeting_id |-> quote(m), file_id |-> quote(f), exp |-> e, sig |-> g] :
                   g \in sigs(m, f, e)} :
                 m \in env.ids, f \in env.ids, e \in exps}

\* recordings_proxy that rejects a link at the second of its expiry
RelayReceive_ExpiresEarly ==
    /\ relay.pc = "idle"
    /\ \E url \in RequestUrls :
         LET meeting_id == unquote(url.meeting_id)
             file_id == unquote(url.file_id)
             now == relay.now
             r == [relay EXCEPT !.url = url, !.meeting_id = meeting_id,
                                !.file_id = file_id, !.exp = url.exp, !.sig = url.sig,
                                !.at = now]
             expected == proxy_sig(meeting_id, file_id, url.exp)
         IN  relay' =
               IF url.exp <= now THEN [r EXCEPT !.pc = "done", !.status = "403_expired"]
               ELSE IF expected.raised
                    THEN [r EXCEPT !.pc = "done", !.status = "http_500_not_configured"]
               ELSE IF expected.sig # url.sig
                    THEN [r EXCEPT !.pc = "done", !.status = "403_bad_signature"]
               ELSE [r EXCEPT !.pc = "get_meeting_recordings"]
    /\ UNCHANGED <<env, batch, calls, callContacts, callDeals, meetingDeals, completed, dealStage, dl>>

\* recordings_proxy that fetches whatever the request names once it has not expired
RelayReceive_NoSignatureCheck ==
    /\ relay.pc = "idle"
    /\ \E url \in RequestUrls :
         LET meeting_id == unquote(url.meeting_id)
             file_id == unquote(url.file_id)
             now == relay.now
             r == [relay EXCEPT !.url = url, !.meeting_id = meeting_id,
                                !.file_id = file_id, !.exp = url.exp, !.sig = url.sig,
                                !.at = now]
             expected == proxy_sig(meeting_id, file_id, url.exp)
         IN  relay' =
               IF url.exp < now THEN [r EXCEPT !.pc = "done", !.status = "403_expired"]
               ELSE IF expected.raised
                    THEN [r EXCEPT !.pc = "done", !.status = "http_500_not_configured"]
               ELSE [r EXCEPT !.pc = "get_meeting_recordings"]
    /\ UNCHANGED <<env, batch, calls, callContacts, callDeals, meetingDeals, completed, dealStage, dl>>

\* recordings_proxy, main.py 140-154: a request arrives; the framework
\* decodes the query; expiry check, then signature check
RelayReceive ==
    /\ relay.pc = "idle"
    /\ \E url \in RequestUrls :
         LET meeting_id == unquote(url.meeting_id)
             file_id == unquote(url.file_id)
             now == relay.now
             r == [relay EXCEPT !.url = url, !.meeting_id = meeting_id,
                                !.file_id = file_id, !.exp = url.exp, !.sig = url.sig,
                                !.at = now]
             expected == proxy_sig(meeting_id, file_id, url.exp)
         IN  relay' =
               IF url.exp < now THEN [r EXCEPT !.pc = "done", !.status = "403_expired"]
               ELSE IF expected.raised
                    THEN [r EXCEPT !.pc = "done", !.status = "http_500_not_configured"]
               ELSE IF expected.sig # url.sig
                    THEN [r EXCEPT !.pc = "done", !.status = "403_bad_signature"]
               ELSE [r EXCEPT !.pc = "get_meeting_recordings"]
    /\ UNCHANGED <<env, batch, calls, callContacts, callDeals, meetingDeals, completed, dealStage, dl>>

\* the position of the first listed file whose id is file_id, 0 for none
FindRecordingFile(recording_files, file_id) ==
    LET hits == {i \in 1..Len(recording_files) : recording_files[i].id = file_id}
    IN  IF hits = {} THEN 0 ELSE MinOf(hits)

\* main.py 156-170: fetch the session's recording list (zoom_client 70-89
\* raises on a token failure or an HTTP status >= 400, a 404 for a session
\* the platform does not know included) and resolve the file id
RelayGetRecordings ==
    /\ relay.pc = "get_meeting_recordings"
    /\ \E out \in {"ok", "raise"} :
         LET r == [relay EXCEPT !.upstream = Append(@, "get_meeting_recordings")]
             known == relay.meeting_id \in DOMAIN RelayRecordings
             recording_files == RelayRecordings[relay.meeting_id]
             chosen == FindRecordingFile(recording_files, relay.file_id)
         IN  relay' =
               IF out = "raise" \/ ~known
               THEN [r EXCEPT !.pc = "done", !.status = "error_unhandled"]
               ELSE IF chosen = 0
                    THEN [r EXCEPT !.pc = "done", !.status = "404_not_found"]
               ELSE IF recording_files[chosen].download_url = ""
                    THEN [r EXCEPT !.pc = "done", !.status = "404_no_download_url"]
               ELSE [r EXCEPT !.pc = "stream_recording_bytes",
                              !.download_url = recording_files[chosen].download_url]
    /\ UNCHANGED <<env, batch, calls, callContacts, callDeals, meetingDeals, completed, dealStage, dl>>

\* what a download request can be answered with: the media with or without
\* a content-type, a login page, a JSON error, a refusal, a server error
DownloadResponses ==
    {[status_code |-> 200, content_type |-> "audio/mp4", body |-> "media"],
     [status_code |-> 200, content_type |-> "", body |-> "media"],
     [status_code |-> 200, content_type |-> "text/html", body |-> "html"],
     [status_code |-> 200, content_type |-> "", body |-> "json_error"],
     [status_code |-> 401, content_type |-> "application/json", body |-> "json_error"],
     [status_code |-> 500, content_type |-> "", body |-> ""]}

\* _is_probably_not_media, zoom_client 125-144
is_probably_not_media(resp) ==
    \/ resp.content_type \in {"text/html", "application/json"}
    \/ resp.body \in {"html", "json_error"}

\* a download request that gets no answer at all: client.get raises a
\* transport error (zoom_client 146, 151)
ConnectError == [status_code |-> 0, content_type |-> "", body |-> "connect_error"]

\* zoom_client 149: the first answer sends the download to its second attempt
NeedsSecondAttempt(first) ==
    first.status_code \in {401, 403} \/ is_probably_not_media(first)

\* stream_recording_bytes sending its second attempt whatever the first
\* answer was
stream_recording_bytes_AlwaysTwice(token, first, second) ==
    LET answers == <<first, second>>
        requests == <<"get_zoom_access_token", "download_bearer", "download_access_token">>
    IN  IF token = "token_error"
        THEN [raised |-> TRUE, value |-> <<>>, resp |-> NoResp, client |-> "none",
              requests |-> <<"get_zoom_access_token">>, answers |-> <<>>]
        ELSE IF first = ConnectError \/ second = ConnectError
        THEN [raised |-> TRUE, value |-> <<>>, resp |-> NoResp, client |-> "open",
              requests |-> requests, answers |-> answers]
        ELSE IF second.status_code >= 400 \/ is_probably_not_media(second)
        THEN [raised |-> TRUE, value |-> <<>>, resp |-> second, client |-> "closed",
              requests |-> requests, answers |-> answers]
        ELSE [raised |-> FALSE, value |-> <<"client", "resp">>, resp |-> second,
              client |-> "open", requests |-> requests, answers |-> answers]

\* stream_recording_bytes, zoom_client 104-162: what it returns (a tuple), or
\* raised = TRUE; first and second are the answers to its two attempts.
\* requests lists the upstream requests it sent, client is the state it
\* leaves its AsyncClient in: never created when the token fetch fails,
\* closed before the "did not return media" error, open when client.get
\* raises and open in the hands of the caller when it returns.
stream_recording_bytes(token, first, second) ==
    LET again == NeedsSecondAttempt(first)
        resp == IF again THEN second ELSE first
        answers == IF again THEN <<first, second>> ELSE <<first>>
        requests == IF again
                    THEN <<"get_zoom_access_token", "download_bearer", "download_access_token">>
                    ELSE <<"get_zoom_access_token", "download_bearer">>
    IN  IF token = "token_error"
        THEN [raised |-> TRUE, value |-> <<>>, resp |-> NoResp, client |-> "none",
              requests |-> <<"get_zoom_access_token">>, answers |-> <<>>]
        ELSE IF first = ConnectError
        THEN [raised |-> TRUE, value |-> <<>>, resp |-> NoResp, client |-> "open",
              requests |-> <<"get_zoom_access_token", "download_bearer">>,
              answers |-> <<first>>]
        ELSE IF resp = ConnectError
        THEN [raised |-> TRUE, value |-> <<>>, resp |-> NoResp, client |-> "open",
              requests |-> requests, answers |-> answers]
        ELSE IF resp.status_code >= 400 \/ is_probably_not_media(resp)
        THEN [raised |-> TRUE, value |-> <<>>, resp |-> resp, client |-> "closed",
              requests |-> requests, answers |-> answers]
        ELSE [raised |-> FALSE, value |-> <<"client", "resp">>, resp |-> resp,
              client |-> "open", requests |-> requests, answers |-> answers]

\* main.py 172-184: download and answer with a streaming response; the
\* assignment client, cm, resp = ... unpacks the returned tuple into three
\* names and raises ValueError when it does not have three elements; the
\* generator that would close the client (176-182) only exists after it
RelayStream ==
    /\ relay.pc = "stream_recording_bytes"
    /\ \E token \in {"ok", "token_error"} :
       \E first \in DownloadResponses \cup {ConnectError} :
       \E second \in DownloadResponses \cup {ConnectError} :
         LET ret == stream_recording_bytes(token, first, second)
             r == [relay EXCEPT !.upstream = @ \o ret.requests,
                                !.resp = ret.resp, !.client = ret.client,
                                !.answers = ret.answers,
                                !.pc = "done"]
         IN  relay' =
               IF ret.raised THEN [r EXCEPT !.status = "error_unhandled"]
               ELSE IF Len(ret.value) # 3 THEN [r EXCEPT !.status = "error_unhandled"]
               ELSE [r EXCEPT !.status = "200_stream", !.client = "closed",
                              !.media_type = IF ret.resp.content_type # ""
                                             THEN ret.resp.content_type
                                             ELSE "application/octet-stream"]
    /\ UNCHANGED <<env, batch, calls, callContacts, callDeals, meetingDeals, completed, dealStage, dl>>

(***************************************************************************)
(* The offline scripts.  backfill_from_2025_12_18.py and                   *)
(* catchup_company_yesterday.py share choose_media_download_url,           *)
(* list_users, list_user_recordings and post_to_webhook; the backfill      *)
(* previews instead of posting when DRY_RUN is on.  catchup_yesterday.py   *)
(* lists one account's recordings and has its own pick_recording_url.      *)
(***************************************************************************)
\* os.getenv(name, "1") == "1": the flag is on when the variable is unset or "1"
FlagOn(value) == (IF value = "unset" THEN "1" ELSE value) = "1"

DRY_RUN == FlagOn(env.script.DRY_RUN)
ONLY_CHANGES == FlagOn(env.script.ONLY_CHANGES)

\* str.strip() on the file-type spellings the model draws from
Strip(s) == IF s = " MP4 " THEN "MP4" ELSE s

\* the key of a file that declares no usable size, 10**18 in the code: above
\* every size the model draws
BigSize == 1000000

\* size_or_big: int(x.get("file_size") or 10**18), 10**18 when int() raises
size_or_big(x) ==
    IF x.file_size = NonNumericSize THEN BigSize
    ELSE IF x.file_size = 0 THEN BigSize
    ELSE x.file_size

\* pick.get("download_url") or pick.get("play_url"), "" standing for None
UrlOf(pick) == IF pick.download_url # "" THEN pick.download_url ELSE pick.play_url

\* choose_media_download_url with the MP4s left in list order
choose_media_download_url_Unsorted(recording_files) ==
    LET n == Len(recording_files)
        media == {i \in 1..n : Strip(Upper(recording_files[i].file_type)) \in MEDIA_FILE_TYPES}
        audio_only == {i \in media : recording_files[i].recording_type = "audio_only"}
        m4a == {i \in audio_only : Upper(recording_files[i].file_type) = "M4A"}
        mp4s == {i \in media : Upper(recording_files[i].file_type) = "MP4"}
    IN  IF n = 0 \/ media = {} THEN ""
        ELSE IF audio_only # {}
             THEN UrlOf(recording_files[IF m4a # {} THEN MinOf(m4a) ELSE MinOf(audio_only)])
        ELSE IF mp4s # {} THEN UrlOf(recording_files[MinOf(mp4s)])
        ELSE UrlOf(recording_files[MinOf(media)])

\* choose_media_download_url, backfill_from_2025_12_18.py 45-81 and
\* catchup_company_yesterday.py 16-52; list.sort is stable, so the first of
\* the MP4s with the least key is picked
choose_media_download_url(recording_files) ==
    LET n == Len(recording_files)
        media == {i \in 1..n : Strip(Upper(recording_files[i].file_type)) \in MEDIA_FILE_TYPES}
        audio_only == {i \in media : recording_files[i].recording_type = "audio_only"}
        m4a == {i \in audio_only : Upper(recording_files[i].file_type) = "M4A"}
        mp4s == {i \in media : Upper(recording_files[i].file_type) = "MP4"}
        least == {i \in mp4s : \A j \in mp4s :
                     size_or_big(recording_files[i]) <= size_or_big(recording_files[j])}
    IN  IF n = 0 \/ media = {} THEN ""
        ELSE IF audio_only # {}
             THEN UrlOf(recording_files[IF m4a # {} THEN MinOf(m4a) ELSE MinOf(audio_only)])
        ELSE IF mp4s # {} THEN UrlOf(recording_files[MinOf(least)])
        ELSE UrlOf(recording_files[MinOf(media)])

\* pick_recording_url, catchup_yesterday.py 17-25
pick_recording_url(recording_files) ==
    LET audio_only == {i \in 1..Len(recording_files) :
                          recording_files[i].recording_type = "audio_only"}
    IN  IF Len(recording_files) = 0 THEN ""
        ELSE IF audio_only # {} THEN UrlOf(recording_files[MinOf(audio_only)])
        ELSE UrlOf(recording_files[1])

\* the selector of the running script
SelectorOf(name, recording_files) ==
    IF name = "catchup_yesterday" THEN pick_recording_url(recording_files)
    ELSE choose_media_download_url(recording_files)

\* the meetings listed for the first k users, in order: a user without id is
\* passed over and a user whose listing failed contributes nothing
RECURSIVE Listed(_, _, _)
Listed(users, failed, k) ==
    IF k = 0 THEN <<>>
    ELSE Listed(users, failed, k - 1)
         \o (IF users[k].id = "" \/ k \in failed THEN <<>> ELSE users[k].meetings)

\* the first k of the meetings without those whose key (uuid, id) was seen
RECURSIVE Unseen(_, _)
Unseen(meetings, k) ==
    IF k = 0 THEN <<>>
    ELSE LET before == Unseen(meetings, k - 1)
             seen == {<<before[j].uuid, before[j].id>> : j \in 1..Len(before)}
         IN  IF <<meetings[k].uuid, meetings[k].id>> \in seen THEN before
             ELSE Append(before, meetings[k])

\* the loop of main() that fills all_meetings
Gather(users, failed) ==
    LET listed == Listed(users, failed, Len(users))
    IN  Unseen(listed, Len(listed))

\* a result of the loop over the meetings
Result(kind, zoom_meeting_id, detail) ==
    [kind |-> kind, zoom_meeting_id |-> zoom_meeting_id, detail |-> detail]

\* the loop moves to the next meeting, or the script prints and ends
Advance(b) ==
    [b EXCEPT !.i = @ + 1,
              !.pc = IF b.i + 1 > Len(b.all_meetings) THEN "done" ELSE "next"]

\* main() up to the loop over the meetings: list_users raises on a token or
\* HTTP failure and the script dies; list_user_recordings answers [] for a
\* user whose listing fails.  catchup_yesterday lists one account's
\* recordings (raise_for_status) and does not remove duplicates
ListMeetings ==
    /\ env.script.name # "none"
    /\ batch.pc = "start"
    /\ \E out \in {"ok", "raise"} : \E failed \in SUBSET (1..Len(env.script.users)) :
         LET users == env.script.users
             all_meetings == IF env.script.name = "catchup_yesterday"
                             THEN users[1].meetings
                             ELSE Gather(users, failed)
         IN  batch' =
               IF out = "raise" THEN [batch EXCEPT !.pc = "crashed"]
               ELSE [batch EXCEPT !.all_meetings = all_meetings,
                                  !.pc = IF all_meetings = <<>> THEN "done" ELSE "next"]
    /\ UNCHANGED <<env, relay, calls, callContacts, callDeals, meetingDeals, completed,
                   dealStage, dl>>

\* the actions whose preview the backfill keeps under ONLY_CHANGES
ChangeActions ==
    {"update_stage", "associate_and_update_stage", "associate_only_protected_stage",
     "associate_only_not_eligible"}

\* the result of preview_actions_for_meeting (backfill_from_2025_12_18.py
\* 178-278) when the CRM holds the given meeting-deal associations and deal
\* stages: the action, the deal it names, and whether it carries
\* associate_call / associate_meeting
PreviewOn(meeting, deals, stage) ==
    IF meeting.id \notin Sessions \/ env.activity[meeting.id] = "none"
    THEN [action |-> "no_hubspot_meeting", deal_id |-> "-", associate |-> FALSE]
    ELSE LET latest_meeting_deal == get_latest_deal(deals[meeting.id])
             contact_deal == get_latest_deal_from_contacts(env.contacts[meeting.id])
         IN  IF latest_meeting_deal # "-"
             THEN [action |-> IF stage[latest_meeting_deal] \in PROTECTED_DEAL_STAGES
                              THEN "skip_protected_stage"
                              ELSE IF stage[latest_meeting_deal] = DEAL_STAGE_QUALIFIED
                                   THEN "update_stage"
                                   ELSE "skip_not_eligible",
                   deal_id |-> latest_meeting_deal, associate |-> FALSE]
             ELSE IF contact_deal = "-"
             THEN [action |-> "no_deal_found", deal_id |-> "-", associate |-> FALSE]
             ELSE [action |-> IF stage[contact_deal] \in PROTECTED_DEAL_STAGES
                              THEN "associate_only_protected_stage"
                              ELSE IF stage[contact_deal]
                                        \in {DEAL_STAGE_QUALIFIED, DEAL_STAGE_CLOSED_LOST}
                                   THEN "associate_and_update_stage"
                                   ELSE "associate_only_not_eligible",
                   deal_id |-> contact_deal, associate |-> TRUE]

\* preview_actions_for_meeting, backfill_from_2025_12_18.py 178-278: CRM
\* reads only; the action it reports
preview_actions_for_meeting(meeting) == PreviewOn(meeting, meetingDeals, dealStage).action

\* one turn of the loop over all_meetings that sends the POST before it
\* looks at DRY_RUN
ProcessMeeting_PostsBeforeFlag ==
    /\ batch.pc = "next"
    /\ LET m == batch.all_meetings[batch.i]
           recording_url == SelectorOf(env.script.name, m.recording_files)
           b == [batch EXCEPT !.recording_files = m.recording_files,
                                      !.recording_url = recording_url]
       IN  batch' =
             IF m.id = "" \/ recording_url = ""
             THEN Advance([b EXCEPT !.results = Append(@, Result("skipped", m.id, "-"))])
             ELSE [b EXCEPT !.pc = "post", !.posts = @ + 1,
                            !.payload = [event |-> "recording.completed",
                                         plainToken |-> "", id |-> m.id]]
    /\ UNCHANGED <<env, relay, calls, callContacts, callDeals, meetingDeals, completed,
                   dealStage, dl>>

\* one turn of the loop over all_meetings (backfill 308-325, catchup_company
\* 171-176, catchup_yesterday 94-99): the backfill with DRY_RUN on previews
\* the meeting (an exception becomes an error result); otherwise
\* post_to_webhook selects the recording URL, skips the meeting without id
\* or URL, returns the dry-run result when DRY_RUN is on, and else sends the
\* POST and awaits the response
ProcessMeeting ==
    /\ batch.pc = "next"
    /\ LET m == batch.all_meetings[batch.i]
       IN  IF env.script.name = "backfill_from_2025_12_18" /\ DRY_RUN
           THEN \E out \in {"ok", "raise"} :
                  LET action == preview_actions_for_meeting(m)
                  IN  batch' =
                        IF out = "raise"
                        THEN Advance([batch EXCEPT
                                        !.results = Append(@, Result("error", m.id, "-"))])
                        ELSE IF ONLY_CHANGES /\ action \notin ChangeActions
                        THEN Advance(batch)
                        ELSE Advance([batch EXCEPT
                                        !.results = Append(@, Result("preview", m.id, action))])
           ELSE LET recording_url == SelectorOf(env.script.name, m.recording_files)
                    b == [batch EXCEPT !.recording_files = m.recording_files,
                                      !.recording_url = recording_url]
                IN  batch' =
                      IF m.id = "" \/ recording_url = ""
                      THEN Advance([b EXCEPT !.results = Append(@, Result("skipped", m.id, "-"))])
                      ELSE IF DRY_RUN
                      THEN Advance([b EXCEPT !.results = Append(@, Result("dry_run", m.id, "-"))])
                      ELSE [b EXCEPT !.pc = "post", !.posts = @ + 1,
                                     !.payload = [event |-> "recording.completed",
                                                  plainToken |-> "", id |-> m.id]]
    /\ UNCHANGED <<env, relay, calls, callContacts, callDeals, meetingDeals, completed,
                   dealStage, dl>>

\* client.post raises before the request reaches the webhook: the loop
\* records the error
PostFails ==
    /\ batch.pc = "post"
    /\ dl[batch.posts].pc = "idle"
    /\ batch' = Advance([batch EXCEPT
                           !.results = Append(@, Result("error", batch.payload.id, "-")),
                           !.payload = NoPayload])
    /\ UNCHANGED <<env, relay, calls, callContacts, callDeals, meetingDeals, completed,
                   dealStage, dl>>

\* the webhook has answered the POST: the loop records status and body
PostAnswered ==
    /\ batch.pc = "post"
    /\ dl[batch.posts].pc = "done"
    /\ batch' = Advance([batch EXCEPT
                           !.results = Append(@, Result("posted", batch.payload.id,
                                                        dl[batch.posts].status)),
                           !.payload = NoPayload])
    /\ UNCHANGED <<env, relay, calls, callContacts, callDeals, meetingDeals, completed,
                   dealStage, dl>>

\* a step of one webhook delivery
DeliveryStep ==
    \E d \in Deliveries :
        \/ Receive(d)
        \/ MatchMeeting(d)
        \/ GetMeetingDealIds(d)
        \/ FindExistingCall(d)
        \/ CreateCall(d)
        \/ AssociateCallToContacts(d)
        \/ AssociateCallToDeals(d)
        \/ GetLatestDeal(d)
        \/ GetLatestDealFromContacts(d)
        \/ AssociateCallToContactDeal(d)
        \/ AssociateMeetingToDeals(d)
        \/ UpdateDealStage(d)
        \/ MarkMeetingCompleted(d)

Next ==
    \/ DeliveryStep
    \/ Tick
    \/ WriteProxyLink
    \/ RelayReceive
    \/ RelayGetRecordings
    \/ RelayStream
    \/ ListMeetings
    \/ ProcessMeeting
    \/ PostFails
    \/ PostAnswered

Spec == Init /\ [][Next]_vars

(***************************************************************************)
(* Properties of the webhook.                                              *)
(***************************************************************************)
Done(d) == dl[d].pc = "done"

\* the positions of delivery d's log that hold a request `op`
Issued(d, op) == {i \in 1..Len(dl[d].log) : dl[d].log[i].op = op}

\* the CRM calls of a session
CallsOf(zoom_meeting_id) ==
    {i \in 1..Len(calls) : calls[i].zoom_meeting_id = zoom_meeting_id}

\* C1: when a recording-completed event is delivered a second time, the
\* second delivery arriving after the first returned ok (and no other
\* delivery carries that session id), then once the second delivery is over
\* exactly one call exists for the session, and the second delivery, unless a
\* collaborator call of its own failed, returned duplicate_ignored with the
\* id of the call the first delivery created.
C1_SequentialRedeliveryIsIdempotent ==
    \A a, b \in Deliveries :
        (/\ a # b
         /\ Done(a) /\ dl[a].status = "ok"
         /\ Done(b) /\ a \in dl[b].after
         /\ dl[b].event = "recording.completed"
         /\ dl[b].zoom_meeting_id = dl[a].zoom_meeting_id
         /\ \A c \in Deliveries \ {a, b} : dl[c].zoom_meeting_id # dl[a].zoom_meeting_id)
        => /\ CallsOf(dl[a].zoom_meeting_id) = {dl[a].call_id}
           /\ dl[b].status \in {"duplicate_ignored", "error_unhandled"}
           /\ dl[b].status = "duplicate_ignored" => dl[b].hubspot_call_id = dl[a].call_id
           /\ dl[b].log = <<>>

\* C1 witness: a redelivery that arrived after the first returned ok was
\* answered duplicate_ignored with the first call's id.
C1_Witness ==
    \E a, b \in Deliveries :
        /\ a # b /\ Done(a) /\ dl[a].status = "ok" /\ dl[a].call_id # 0
        /\ Done(b) /\ a \in dl[b].after
        /\ dl[b].zoom_meeting_id = dl[a].zoom_meeting_id
        /\ dl[b].status = "duplicate_ignored"
        /\ dl[b].hubspot_call_id = dl[a].call_id

\* C2: the pre-check is not atomic with the call creation.  A delivery leaves
\* the pre-check for the creation only when no call exists for its session at
\* that moment; all the same two calls can exist for one session, and when
\* they do they were created by two deliveries that overlapped (neither
\* arrived after the other had finished).
C2_DuplicateCallsOnlyByRace ==
    /\ [](\A i, j \in 1..Len(calls) :
            (i < j /\ calls[i].zoom_meeting_id = calls[j].zoom_meeting_id)
            => /\ calls[i].by # calls[j].by
               /\ calls[i].by \notin dl[calls[j].by].after
               /\ calls[j].by \notin dl[calls[i].by].after)
    /\ [][\A d \in Deliveries :
            (dl[d].pc = "find_existing_call" /\ dl'[d].pc = "create_call_for_meeting")
            => CallsOf(dl[d].zoom_meeting_id) = {}]_vars

\* C2 witness: two call records for one session id.
C2_TwoCallsForOneSession ==
    \E i, j \in 1..Len(calls) :
        i < j /\ calls[i].zoom_meeting_id = calls[j].zoom_meeting_id

NoWriteStatuses ==
    {"ignored_event", "ignored_no_media_recording_file", "ignored_no_recording_file_id",
     "ignored_no_matching_meeting", "ignored_missing_activity_type", "duplicate_ignored"}

\* C3: a delivery that ends in an ignored status or in duplicate_ignored has
\* issued no CRM write (no call, no association, no stage update, no
\* completion marking), and the step that ends it changes nothing in the CRM.
C3_IgnoredAndDuplicateWriteNothing ==
    /\ [](\A d \in Deliveries :
            (Done(d) /\ dl[d].status \in NoWriteStatuses)
            => /\ dl[d].log = <<>>
               /\ dl[d].call_id = 0
               /\ dl[d].updated_deal_id = "-"
               /\ \A i \in 1..Len(calls) : calls[i].by # d)
    /\ [][\A d \in Deliveries :
            (~Done(d) /\ dl'[d].pc = "done" /\ dl'[d].status \in NoWriteStatuses)
            => UNCHANGED <<calls, callContacts, callDeals, meetingDeals, completed, dealStage>>]_vars

\* C3 witness: a delivery whose matched meeting has no activity type ended
\* ignored, with the CRM as it was.
C3_Witness ==
    \E d \in Deliveries :
        /\ Done(d) /\ dl[d].status = "ignored_missing_activity_type"
        /\ dl[d].meeting_id # "" /\ dl[d].log = <<>> /\ calls = <<>>

\* C4: once a delivery has created its call, no failure of a later sub-step
\* aborts it: it ends with the status response ok, and the call remains.
C4_NoAbortOnceCallExists ==
    \A d \in Deliveries :
        (Done(d) /\ dl[d].call_id # 0)
        => /\ dl[d].status = "ok"
           /\ dl[d].call_id \in CallsOf(dl[d].zoom_meeting_id)

\* C5: when the platform answers the participant lookup with not-found, the
\* call the delivery creates has the disposition connected.
C5_NotFoundLookupGivesConnected ==
    \A d \in Deliveries :
        (dl[d].lookup = "answer" /\ ~env.participants.found /\ dl[d].call_id # 0)
        => calls[dl[d].call_id].disposition = DISPOSITION_CONNECTED

LookupErrors == {"token_error", "transport_error", "http_error"}

\* C6: when the participant lookup raises (token fetch failure, HTTP error
\* other than not-found, transport error) the delivery goes on to the
\* pre-check with the disposition connected and no participant count, and the
\* call it creates carries the disposition connected.  Such a delivery ends
\* with ok or duplicate_ignored unless a later CRM request of its own raised.
C6_LookupErrorDefaultsToConnected ==
    /\ [](\A d \in Deliveries :
            dl[d].lookup \in LookupErrors
            => /\ dl[d].disposition = DISPOSITION_CONNECTED
               /\ dl[d].participant_count = -1
               /\ dl[d].call_id # 0
                  => calls[dl[d].call_id].disposition = DISPOSITION_CONNECTED
               /\ (Done(d) /\ dl[d].status \notin {"ok", "duplicate_ignored"})
                  => /\ dl[d].status = "error_unhandled"
                     /\ \/ dl[d].log = <<>>
                        \/ dl[d].log[Len(dl[d].log)].out \notin {"ok", "http_error"})
    /\ [][\A d \in Deliveries :
            (dl[d].lookup = "-" /\ dl'[d].lookup \in LookupErrors)
            => dl'[d].pc = "find_existing_call"]_vars

\* C6 witness: a delivery whose participant lookup raised returned ok, its
\* call created with the disposition connected.
C6_Witness ==
    \E d \in Deliveries :
        /\ Done(d) /\ dl[d].status = "ok" /\ dl[d].lookup \in LookupErrors
        /\ dl[d].call_id # 0
        /\ calls[dl[d].call_id].disposition = DISPOSITION_CONNECTED

\* C7: on the direct path a stage update is issued (or is the delivery's next
\* step) exactly when the stage read for the latest direct deal is Qualified;
\* the update names that deal and sets Followup; for every other stage no
\* update is issued and the response reports no updated deal.
C7_DirectPathUpdatesIffQualified ==
    \A d \in Deliveries :
        dl[d].path = "direct"
        => /\ (dl[d].pc = "update_deal_stage" \/ Issued(d, "update_deal_stage") # {})
              <=> dl[d].stage = DEAL_STAGE_QUALIFIED
           /\ \A i \in Issued(d, "update_deal_stage") : dl[d].log[i].deal = dl[d].deal_id
           /\ dl[d].updated_deal_id # "-"
              => /\ dl[d].stage = DEAL_STAGE_QUALIFIED
                 /\ dl[d].updated_deal_id = dl[d].deal_id
           /\ dl[d].deal_id = Latest(dl[d].deal_ids)

\* C7 witness: a delivery on the direct path found the deal Qualified, updated
\* it and returned ok; the deal is in Followup.
C7_Witness ==
    \E d \in Deliveries :
        /\ Done(d) /\ dl[d].status = "ok" /\ dl[d].path = "direct"
        /\ dl[d].stage = DEAL_STAGE_QUALIFIED
        /\ dl[d].updated_deal_id = dl[d].deal_id
        /\ dealStage[dl[d].deal_id] = DEAL_STAGE_FOLLOWUP

\* the delivery took the contact fallback and found a deal there
FallbackDeal(d) == dl[d].path = "fallback" /\ dl[d].deal_id # "-"

\* C8: on the contact-fallback path a stage update is issued only when the
\* stage read for the contact deal is Qualified or Closed-Lost, and then the
\* requests associating that deal to the new call and to the meeting were
\* issued before it (and are in the CRM when they succeeded); conversely,
\* with such a stage the delivery does not reach the completion marking
\* without having issued the update.
C8_FallbackUpdatesIffQualifiedOrClosedLost ==
    \A d \in Deliveries :
        FallbackDeal(d)
        => /\ (dl[d].pc = "update_deal_stage" \/ Issued(d, "update_deal_stage") # {})
              => /\ dl[d].stage \in {DEAL_STAGE_QUALIFIED, DEAL_STAGE_CLOSED_LOST}
                 /\ \E i \in Issued(d, "associate_call_to_deals") :
                      \E j \in Issued(d, "associate_meeting_to_deals") :
                        /\ dl[d].log[i].deal = dl[d].deal_id
                        /\ dl[d].log[j].deal = dl[d].deal_id
                        /\ \A u \in Issued(d, "update_deal_stage") : i < j /\ j < u
                        /\ dl[d].log[i].out = "ok"
                           => <<dl[d].call_id, dl[d].deal_id>> \in callDeals
                        /\ dl[d].log[j].out = "ok"
                           => dl[d].deal_id \in meetingDeals[dl[d].meeting_id]
           /\ (/\ dl[d].stage \in {DEAL_STAGE_QUALIFIED, DEAL_STAGE_CLOSED_LOST}
               /\ dl[d].pc = "mark_meeting_completed" \/ (Done(d) /\ dl[d].status = "ok"))
              => /\ Issued(d, "update_deal_stage") # {}
                 /\ dl[d].updated_deal_id = dl[d].deal_id

\* C8 witness: a delivery on the fallback path found the contact deal
\* Closed-Lost, associated it to the call and the meeting, updated it and
\* returned ok.
C8_Witness ==
    \E d \in Deliveries :
        /\ Done(d) /\ dl[d].status = "ok" /\ FallbackDeal(d)
        /\ dl[d].stage = DEAL_STAGE_CLOSED_LOST
        /\ dl[d].updated_deal_id = dl[d].deal_id
        /\ dealStage[dl[d].deal_id] = DEAL_STAGE_FOLLOWUP
        /\ <<dl[d].call_id, dl[d].deal_id>> \in callDeals
        /\ dl[d].deal_id \in meetingDeals[dl[d].meeting_id]

\* C9: no delivery issues a stage update for a deal that is in a protected
\* stage at that moment, on either path, and no step changes the stage of a
\* deal that is in a protected stage.
C9_ProtectedDealsNeverUpdated ==
    /\ [](\A d \in Deliveries :
            /\ \A i \in Issued(d, "update_deal_stage") :
                 dl[d].log[i].was \notin PROTECTED_DEAL_STAGES
            /\ dl[d].pc = "update_deal_stage"
               => dealStage[dl[d].deal_id] \notin PROTECTED_DEAL_STAGES)
    /\ [][\A k \in Deals :
            dealStage[k] \in PROTECTED_DEAL_STAGES => dealStage'[k] = dealStage[k]]_vars

\* C9 witness: deliveries found a protected deal on the fallback path, left
\* its stage alone and returned ok.
C9_Witness ==
    \E d \in Deliveries :
        /\ Done(d) /\ dl[d].status = "ok" /\ FallbackDeal(d)
        /\ dl[d].stage \in PROTECTED_DEAL_STAGES
        /\ dealStage[dl[d].deal_id] = dl[d].stage

\* C10: a delivery that read at least one directly associated deal for the
\* meeting evaluates only the latest of them: it never takes the contact
\* fallback, whatever the deal lookups answer.
C10_NoFallbackWithDirectDeal ==
    \A d \in Deliveries :
        (dl[d].deal_ids # {} /\ dl[d].path # "-")
        => /\ dl[d].path = "direct"
           /\ dl[d].deal_id = Latest(dl[d].deal_ids)
           /\ Issued(d, "associate_meeting_to_deals") = {}

\* C11: a delivery issues at most one deal-stage update; every step that
\* changes a deal's stage changes one deal, to Followup, and is the single
\* update of the delivery that takes it.
C11_AtMostOneUpdateToFollowup ==
    /\ [](\A d \in Deliveries : Cardinality(Issued(d, "update_deal_stage")) <= 1)
    /\ [][dealStage' # dealStage
          => /\ \E k \in Deals :
                  /\ dealStage'[k] = DEAL_STAGE_FOLLOWUP
                  /\ \A j \in Deals \ {k} : dealStage'[j] = dealStage[j]
             /\ \E d \in Deliveries :
                  /\ Issued(d, "update_deal_stage") = {}
                  /\ dl[d].pc = "update_deal_stage"
                  /\ dl'[d].updated_deal_id = dl[d].deal_id
                  /\ dealStage'[dl[d].deal_id] = DEAL_STAGE_FOLLOWUP]_vars

\* C11 witness: a delivery returned ok after its one update; the deal it
\* names is in Followup.
C11_Witness ==
    \E d \in Deliveries :
        /\ Done(d) /\ dl[d].status = "ok"
        /\ Cardinality(Issued(d, "update_deal_stage")) = 1
        /\ dealStage[dl[d].updated_deal_id] = DEAL_STAGE_FOLLOWUP
        /\ env.st[dl[d].updated_deal_id] # DEAL_STAGE_FOLLOWUP

\* the place of a CRM write in the order of effects
Rank(op) ==
    CASE op = "create_call_for_meeting" -> 1
      [] op \in {"associate_call_to_contacts", "associate_call_to_deals",
                 "associate_meeting_to_deals"} -> 2
      [] op = "update_deal_stage" -> 3
      [] op = "mark_meeting_completed" -> 4

\* C12: the CRM writes of a delivery come in the order call creation,
\* associations, at most one stage update, completion marking: the call
\* creation is the first request and is issued once, every later request
\* follows a successful creation, and a delivery that returns ok ends with
\* the completion marking.  No step changes associations, deal stages or
\* completion marks unless the delivery taking it has created its call.
C12_EffectsInOrder ==
    /\ [](\A d \in Deliveries :
            LET log == dl[d].log
            IN  /\ \A i \in 1..Len(log) : \A j \in 1..Len(log) :
                     i < j => /\ Rank(log[i].op) <= Rank(log[j].op)
                              /\ Rank(log[j].op) # 1
                              /\ Rank(log[j].op) = 4 => Rank(log[i].op) # 4
                /\ log # <<>>
                   => /\ log[1].op = "create_call_for_meeting"
                      /\ Len(log) > 1
                         => /\ log[1].out = "ok"
                            /\ dl[d].call_id \in CallsOf(dl[d].zoom_meeting_id)
                /\ (Done(d) /\ dl[d].status = "ok")
                   => /\ log[1].op = "create_call_for_meeting"
                      /\ log[Len(log)].op = "mark_meeting_completed"
                      /\ Len(log) >= 2)
    /\ [](\A a \in callContacts \cup callDeals : a[1] \in 1..Len(calls))
    /\ [][<<callContacts, callDeals, meetingDeals, completed, dealStage>>'
            # <<callContacts, callDeals, meetingDeals, completed, dealStage>>
          => \E d \in Deliveries :
               /\ dl'[d] # dl[d]
               /\ dl[d].call_id # 0
               /\ dl[d].call_id \in CallsOf(dl[d].zoom_meeting_id)]_vars

\* C12 witness: a delivery returned ok after all four kinds of write: call
\* creation, associations, a stage update and the completion marking.
C12_Witness ==
    \E d \in Deliveries :
        /\ Done(d) /\ dl[d].status = "ok"
        /\ Len(dl[d].log) >= 5
        /\ Issued(d, "associate_call_to_contacts") # {}
        /\ Issued(d, "associate_call_to_deals") # {}
        /\ Issued(d, "update_deal_stage") # {}
        /\ dl[d].meeting_id \in completed

\* the early exits of the webhook, in the order of their checks: URL
\* validation, event type, session id, media file, recording file id, CRM
\* meeting matched, activity type, no existing call
EarlyExits ==
    <<"url_validated", "ignored_event", "http_400", "ignored_no_media_recording_file",
      "ignored_no_recording_file_id", "ignored_no_matching_meeting",
      "ignored_missing_activity_type", "duplicate_ignored">>

\* the first check, in that order, that the delivery's event and the data of
\* its session fail, as a position of EarlyExits; 8, the pre-check, when the
\* event and the session's data pass them all
FirstFailing(d) ==
    LET r == dl[d]
        files == env.files[r.zoom_meeting_id]
        chosen == choose_media_recording_file(files)
    IN  IF r.event = "endpoint.url_validation" THEN 1
        ELSE IF r.event # "recording.completed" THEN 2
        ELSE IF r.zoom_meeting_id = "" THEN 3
        ELSE IF chosen = 0 THEN 4
        ELSE IF files[chosen].id = "" THEN 5
        ELSE IF env.activity[r.zoom_meeting_id] = "none" THEN 6
        ELSE IF env.activity[r.zoom_meeting_id] = "untyped" THEN 7
        ELSE 8

\* C13: the early exits have pairwise distinct statuses, none of them ok, and
\* a finished delivery never reports an exit later than the first check it
\* fails, nor ok: it reports that exit, unless the handler raised before
\* reaching it (a collaborator's failure, or the unset signing secret, which
\* only exits behind the media checks can meet).  The exits for the event
\* type and the session id are preceded by no call that can raise.
C13_FirstFailingCheckDecides ==
    /\ \A i \in 1..Len(EarlyExits) : \A j \in 1..Len(EarlyExits) :
         i # j => EarlyExits[i] # EarlyExits[j]
    /\ \A i \in 1..Len(EarlyExits) : EarlyExits[i] # "ok"
    /\ \A d \in Deliveries :
         Done(d)
         => LET k == FirstFailing(d)
                status == dl[d].status
            IN  /\ k = 1 => status \in {"url_validated", "http_400", "http_500_not_configured"}
                /\ k \in {2, 3} => status = EarlyExits[k]
                /\ k \in {4, 5} => status \in {EarlyExits[k], "error_unhandled"}
                /\ k \in {6, 7} => status \in {EarlyExits[k], "error_unhandled",
                                               "http_500_not_configured"}
                /\ k = 8 => status \in {"duplicate_ignored", "ok", "error_unhandled",
                                        "http_500_not_configured"}
                /\ (k >= 6 /\ "MEDIA_PROXY_SECRET" \notin env.secrets)
                   => status \in {"http_500_not_configured", "error_unhandled"}
                /\ status = "duplicate_ignored"
                   => dl[d].hubspot_call_id \in CallsOf(dl[d].zoom_meeting_id)

\* C13 witness: a delivery whose session has no media file and no CRM
\* meeting either reported the media exit.
C13_Witness ==
    \E d \in Deliveries :
        /\ Done(d) /\ dl[d].status = "ignored_no_media_recording_file"
        /\ env.activity[dl[d].zoom_meeting_id] = "none"

\* a URL-validation delivery that carries a plain token
Validation(d) == dl[d].event = "endpoint.url_validation" /\ dl[d].status # "http_400"

\* C14 as stated: every URL-validation delivery that carries a plain token
\* is answered with that token and its digest.
C14_EveryValidationAnswered ==
    \A d \in Deliveries :
        (Done(d) /\ Validation(d))
        => /\ dl[d].status = "url_validated"
           /\ dl[d].plainToken \in PlainTokens
           /\ dl[d].encryptedToken = zoom_encrypted_token(dl[d].plainToken)

\* C14, amended: a URL-validation delivery finishes in its first step, with
\* no CRM request and no change of the CRM, and never reaches the steps that
\* call the conferencing platform or the CRM; when the webhook secret is set
\* and the payload carries a plain token the answer is that token with its
\* digest under the secret; when the secret is unset the answer is the
\* configuration error.
C14_ValidationShortCircuits ==
    /\ [](\A d \in Deliveries :
            dl[d].event = "endpoint.url_validation"
            => /\ Done(d)
               /\ dl[d].log = <<>>
               /\ dl[d].zoom_meeting_id = "" /\ dl[d].call_id = 0
               /\ dl[d].status \in {"url_validated", "http_400", "http_500_not_configured"}
               /\ dl[d].status = "url_validated"
                  <=> /\ dl[d].plainToken \in PlainTokens
                      /\ "ZOOM_WEBHOOK_SECRET_TOKEN" \in env.secrets
               /\ dl[d].status = "url_validated"
                  => dl[d].encryptedToken
                       = hmac_hexdigest("ZOOM_WEBHOOK_SECRET_TOKEN", dl[d].plainToken)
               /\ dl[d].status = "http_500_not_configured"
                  => "ZOOM_WEBHOOK_SECRET_TOKEN" \notin env.secrets)
    /\ [][\A d \in Deliveries :
            (dl[d].pc = "idle" /\ dl'[d].event = "endpoint.url_validation")
            => UNCHANGED <<calls, callContacts, callDeals, meetingDeals, completed,
                           dealStage>>]_vars

\* C14 witness: a validation delivery was answered with its token and digest.
C14_Witness ==
    \E d \in Deliveries :
        /\ Done(d) /\ dl[d].status = "url_validated"
        /\ dl[d].plainToken = "p2"
        /\ dl[d].encryptedToken = <<"ZOOM_WEBHOOK_SECRET_TOKEN", "p2">>

\* C15: a recording-completed delivery without a session id ends in its
\* first step with a bad-request error, before any request to the platform
\* or the CRM: it issues no CRM write, the step changes nothing in the CRM,
\* and only deliveries of recording-completed events with a session id are
\* ever at the steps that fetch the recording list or touch the CRM.
C15_MissingSessionIdRejectedFirst ==
    /\ [](\A d \in Deliveries :
            /\ dl[d].pc \notin {"idle", "done"}
               => /\ dl[d].event = "recording.completed"
                  /\ dl[d].zoom_meeting_id \in Sessions
            /\ (Done(d) /\ dl[d].event = "recording.completed" /\ dl[d].zoom_meeting_id = "")
               => /\ dl[d].status = "http_400"
                  /\ dl[d].log = <<>>
                  /\ dl[d].meeting_id = "" /\ dl[d].call_id = 0)
    /\ [][\A d \in Deliveries :
            (/\ dl[d].pc = "idle"
             /\ dl'[d].event = "recording.completed"
             /\ dl'[d].zoom_meeting_id = "")
            => /\ dl'[d].pc = "done"
               /\ dl'[d].status = "http_400"
               /\ UNCHANGED <<calls, callContacts, callDeals, meetingDeals, completed,
                              dealStage>>]_vars

\* C15 witness: a recording-completed delivery without a session id was
\* rejected with the bad-request error.
C15_Witness ==
    \E d \in Deliveries :
        /\ Done(d) /\ dl[d].event = "recording.completed"
        /\ dl[d].zoom_meeting_id = "" /\ dl[d].status = "http_400"

(***************************************************************************)
(* Properties of the signed proxy link and the relay.                      *)
(***************************************************************************)
\* the relay has a request in hand or has answered one
Requested == relay.pc # "idle"

\* the request passed both checks of the relay: it reached the upstream calls
Authorised == relay.pc \in {"get_meeting_recordings", "stream_recording_bytes"}
              \/ relay.upstream # <<>>

\* C16: a request that presents the signature and expiry of the link written
\* for (session s, file f) but names another pair of ids is rejected with
\* 403, whatever characters the ids contain.
C16_SignatureScopedToOnePair ==
    (/\ Requested /\ relay.link.issued
     /\ relay.sig = relay.link.url.sig /\ relay.exp = relay.link.url.exp
     /\ <<relay.meeting_id, relay.file_id>> # <<relay.link.meeting_id, relay.link.file_id>>)
    => /\ relay.status \in {"403_bad_signature", "403_expired"}
       /\ ~Authorised

\* C17: the link written at time t carries the expiry t + 7 days and the
\* signature of its ids and expiry; a request for the link's URL decodes to
\* the link's ids, passes the expiry and signature checks at every time up to
\* and including the expiry, and is rejected as expired at every later time.
C17_LinkRoundTrip ==
    /\ relay.link.issued
       => /\ relay.link.url.exp = relay.link.at + TTL
          /\ relay.link.url.sig
               = hmac_hexdigest("MEDIA_PROXY_SECRET",
                                ProxyMessage(relay.link.meeting_id, relay.link.file_id,
                                             relay.link.at + TTL))
    /\ (Requested /\ relay.link.issued /\ relay.url = relay.link.url)
       => /\ relay.meeting_id = relay.link.meeting_id
          /\ relay.file_id = relay.link.file_id
          /\ relay.at >= relay.link.at
          /\ relay.at <= relay.exp => Authorised
          /\ relay.at > relay.exp => /\ relay.status = "403_expired"
                                     /\ ~Authorised

\* C17 witness: the link's URL was requested at the very second of its
\* expiry, for ids that the URL escapes, and passed both checks.
C17_Witness ==
    /\ Requested /\ relay.link.issued /\ relay.url = relay.link.url
    /\ relay.at = relay.exp
    /\ relay.url.meeting_id # relay.meeting_id
    /\ Authorised

\* C18: the relay calls the platform only for a request that has not
\* expired and whose signature equals the one computed over its session id,
\* file id and expiry; a request whose signature differs from the computed
\* one is rejected with 403 and no platform call.
C18_NoUpstreamWithoutBothChecks ==
    LET expected == proxy_sig(relay.meeting_id, relay.file_id, relay.exp)
    IN  /\ Authorised
           => /\ ~(relay.exp < relay.at)
              /\ ~expected.raised
              /\ relay.sig = expected.sig
        /\ (Requested /\ ~expected.raised /\ relay.sig # expected.sig)
           => /\ relay.pc = "done"
              /\ relay.status = IF relay.exp < relay.at THEN "403_expired"
                                ELSE "403_bad_signature"
              /\ relay.upstream = <<>>

\* C18 witness: the link's URL with its signature changed in one character
\* was requested before the expiry and rejected as a bad signature.
C18_Witness ==
    /\ Requested /\ relay.link.issued
    /\ relay.sig = Mutated(relay.link.url.sig)
    /\ relay.url = [relay.link.url EXCEPT !.sig = relay.sig]
    /\ relay.at <= relay.exp
    /\ relay.status = "403_bad_signature"

\* C19: with the proxy signing secret unset no link is written, no relay
\* request is authorised (none reaches a platform call), a request that has
\* not expired ends in the configuration error, and a webhook delivery never
\* gets past the signing of the link: a delivery whose session has a media
\* file ends in the configuration error (or in the failure of the recording
\* list fetch before it) and no call is created.
C19_UnsetSecretFailsClosed ==
    ProxyKey = ""
    => /\ ~relay.link.issued /\ relay.wrote \in {"", "http_500_not_configured"}
       /\ ~Authorised
       /\ Requested
          => /\ relay.pc = "done"
             /\ relay.status = IF relay.exp < relay.at THEN "403_expired"
                               ELSE "http_500_not_configured"
       /\ calls = <<>>
       /\ \A d \in Deliveries :
            /\ dl[d].pc \in {"idle", "get_meeting_recordings", "done"}
            /\ dl[d].call_id = 0
            /\ (Done(d) /\ FirstFailing(d) >= 6)
               => dl[d].status \in {"http_500_not_configured", "error_unhandled"}

\* C19 witness: with the secret unset, a request signed under the empty key
\* arrived before its expiry and ended in the configuration error.
C19_Witness ==
    /\ ProxyKey = "" /\ Requested
    /\ relay.sig = hmac_hexdigest("", ProxyMessage(relay.meeting_id, relay.file_id, relay.exp))
    /\ relay.at <= relay.exp
    /\ relay.status = "http_500_not_configured"

\* C20: a request that passed both checks, whose file id resolved to a file
\* with a download locator and whose download returned media, is answered
\* with a stream carrying the upstream content-type.
C20_ValidRequestStreams ==
    (/\ relay.pc = "done"
     /\ relay.download_url # ""
     /\ relay.resp.status_code = 200 /\ ~is_probably_not_media(relay.resp))
    => /\ relay.status = "200_stream"
       /\ relay.media_type = IF relay.resp.content_type # "" THEN relay.resp.content_type
                             ELSE "application/octet-stream"

\* how many times the relay sent the upstream request `op`
Sent(op) == Cardinality({i \in 1..Len(relay.upstream) : relay.upstream[i] = op})

\* C21: every upstream HTTP client the relay opened for a request is closed
\* once the request is over, on every path.
C21_EveryClientClosed ==
    relay.pc = "done" => relay.client # "open"

FilesOf(d) == env.files[dl[d].zoom_meeting_id]

\* delivery d has run the media selector
Selected(d) == dl[d].chosen >= 0

IsAudioOnlyM4A(f) == FileTypeOf(f) = "M4A" /\ RecordingTypeOf(f) = "audio_only"

IsVideoMP4(f) == FileTypeOf(f) = "MP4" /\ RecordingTypeOf(f) # "audio_only"

\* the file types and recording kinds of transcripts, chat logs and captions
ArtifactFileTypes == {"TRANSCRIPT", "CHAT", "CC"}
ArtifactRecordingTypes == {"audio_transcript", "transcript", "chat_file", "closed_caption"}

IsArtifact(f) ==
    FileTypeOf(f) \in ArtifactFileTypes \/ RecordingTypeOf(f) \in ArtifactRecordingTypes

\* C23: when the session's file list holds an audio_only M4A file, the
\* webhook's media selector returns an audio_only M4A file, whatever
\* precedes it in the list.
C23_AudioOnlyM4AWins ==
    \A d \in Deliveries :
        (Selected(d) /\ \E i \in 1..Len(FilesOf(d)) : IsAudioOnlyM4A(FilesOf(d)[i]))
        => /\ dl[d].chosen > 0
           /\ IsAudioOnlyM4A(FilesOf(d)[dl[d].chosen])

\* C24: on a list of non-audio-only MP4 files only, the webhook's media
\* selector returns the file of the smallest size when the sizes are
\* declared and distinct, and the first file when no two sizes differ.
C24_SmallestVideoWins ==
    \A d \in Deliveries :
        LET files == FilesOf(d)
            n == Len(files)
        IN  (Selected(d) /\ n > 0 /\ \A i \in 1..n : IsVideoMP4(files[i]))
            => /\ (\A i, j \in 1..n : /\ files[i].file_size > 0
                                      /\ (i # j => files[i].file_size # files[j].file_size))
                  => /\ dl[d].chosen > 0
                     /\ \A i \in 1..n : files[dl[d].chosen].file_size <= files[i].file_size
               /\ (\A i, j \in 1..n : files[i].file_size = files[j].file_size)
                  => dl[d].chosen = 1

\* C25: on a list of transcript, chat and caption artifacts only, whether
\* the file type or the recording kind identifies them, the webhook's media
\* selector returns none and the delivery ends in the no-media status.
C25_ArtifactsOnlySelectNone ==
    \A d \in Deliveries :
        (Selected(d) /\ \A i \in 1..Len(FilesOf(d)) : IsArtifact(FilesOf(d)[i]))
        => /\ dl[d].chosen = 0
           /\ Done(d) => dl[d].status = "ignored_no_media_recording_file"

\* C26: the webhook's media selector returns none or a file whose type is
\* one of M4A, MP4, MP3, WAV.
C26_SelectedTypeIsAllowed ==
    \A d \in Deliveries :
        (Selected(d) /\ dl[d].chosen > 0)
        => FileTypeOf(FilesOf(d)[dl[d].chosen]) \in {"M4A", "MP4", "MP3", "WAV"}

\* delivery d, on the contact-fallback path with a deal found, has evaluated
\* the deal's stage: it stands at or after the step the evaluation leads to
Evaluated(d) ==
    /\ dl[d].path = "fallback" /\ dl[d].deal_id # "-"
    /\ \/ dl[d].pc \in {"update_deal_stage", "mark_meeting_completed"}
       \/ Issued(d, "update_deal_stage") \cup Issued(d, "mark_meeting_completed") # {}

\* the positions of delivery d's log that hold a request `op` for its deal
IssuedForDeal(d, op) == {i \in Issued(d, op) : dl[d].log[i].deal = dl[d].deal_id}

\* C27: on the contact-fallback path, once the stage of the discovered deal
\* has been evaluated, the request associating the deal to the call and then
\* the request associating it to the meeting have been sent, before any
\* stage update, and each one that succeeded is in the CRM; this holds for
\* every stage of the deal, protected and ineligible ones included.
C27_FallbackAssociatesBeforeStage ==
    \A d \in Deliveries :
        Evaluated(d)
        => LET a == IssuedForDeal(d, "associate_call_to_deals")
               b == IssuedForDeal(d, "associate_meeting_to_deals")
               later == Issued(d, "update_deal_stage") \cup Issued(d, "mark_meeting_completed")
           IN  /\ Cardinality(a) = 1 /\ Cardinality(b) = 1
               /\ \A i \in a : \A j \in b :
                    /\ i < j
                    /\ \A u \in later : j < u
                    /\ dl[d].log[i].out = "ok" => <<dl[d].call_id, dl[d].deal_id>> \in callDeals
                    /\ dl[d].log[j].out = "ok"
                       => dl[d].deal_id \in meetingDeals[dl[d].meeting_id]

\* C27 witness: a delivery ended ok on the fallback path with a deal in a
\* protected stage: both associations are in the CRM and no update was sent.
C27_Witness ==
    \E d \in Deliveries :
        /\ Done(d) /\ dl[d].status = "ok" /\ dl[d].path = "fallback"
        /\ dl[d].deal_id # "-" /\ dl[d].stage \in PROTECTED_DEAL_STAGES
        /\ <<dl[d].call_id, dl[d].deal_id>> \in callDeals
        /\ dl[d].deal_id \in meetingDeals[dl[d].meeting_id]
        /\ Issued(d, "update_deal_stage") = {}

\* the number of unique (name, user_email) pairs among the participant rows
\* the platform holds
UniquePairs ==
    Cardinality({<<env.participants.rows[i].name, env.participants.rows[i].user_email>> :
                    i \in 1..Len(env.participants.rows)})

\* C28: the call a delivery created has the disposition no-answer exactly
\* when its event carried a correlation id (uuid) and the participant lookup
\* was answered with participant rows holding at most one unique
\* (name, email) pair; without a uuid, on a failed lookup (not-found
\* included) and on two or more pairs it is connected.
C28_NoAnswerIffCountAtMostOne ==
    \A d \in Deliveries :
        dl[d].call_id # 0
        => /\ calls[dl[d].call_id].disposition \in {DISPOSITION_NO_ANSWER, DISPOSITION_CONNECTED}
           /\ calls[dl[d].call_id].disposition = DISPOSITION_NO_ANSWER
              <=> /\ dl[d].zoom_meeting_uuid
                  /\ dl[d].lookup = "answer"
                  /\ env.participants.found
                  /\ UniquePairs <= 1

\* the file is of an allowed media type: its type, trimmed, spells M4A, MP4,
\* MP3 or WAV in any case
IsAllowedType(f) == Strip(Upper(f.file_type)) \in {"M4A", "MP4", "MP3", "WAV"}

\* the file declares a positive size
HasPositiveSize(f) == f.file_size # NonNumericSize /\ f.file_size > 0

\* file i of the list is picked before file j: a positive size before a
\* missing, zero or non-numeric one, the smaller positive size first, and
\* list order between equal keys
SortsBefore(files, i, j) ==
    \/ HasPositiveSize(files[i]) /\ ~HasPositiveSize(files[j])
    \/ /\ HasPositiveSize(files[i]) /\ HasPositiveSize(files[j])
       /\ files[i].file_size < files[j].file_size
    \/ /\ i < j
       /\ \/ ~HasPositiveSize(files[i]) /\ ~HasPositiveSize(files[j])
          \/ /\ HasPositiveSize(files[i]) /\ HasPositiveSize(files[j])
             /\ files[i].file_size = files[j].file_size

C30_DryRunWritesNothing ==
    (env.script.name # "none" /\ DRY_RUN)
    => /\ batch.posts = 0 /\ batch.pc # "post" /\ batch.payload = NoPayload
       /\ \A d \in Deliveries : dl[d] = IdleDelivery
       /\ calls = <<>> /\ callContacts = {} /\ callDeals = {} /\ completed = {}
       /\ dealStage = env.st
       /\ meetingDeals = [s \in Sessions |-> IF s = "s1" THEN env.md ELSE {}]

\* C30 witness: a script run with DRY_RUN unset went through its meetings and
\* ended with a dry-run or preview result for a meeting that has media.
C30_Witness ==
    /\ env.script.name # "none" /\ env.script.DRY_RUN = "unset"
    /\ batch.pc = "done"
    /\ \E k \in 1..Len(batch.results) :
         /\ batch.results[k].kind \in {"dry_run", "preview"}
         /\ batch.results[k].zoom_meeting_id = "s1"

\* C32: on every list of recording files the two selectors agree: the
\* locator the backfill selector returns is the download (or play) locator of
\* the file the webhook selector returns, and each returns none exactly when
\* the other does; so the webhook, handling the POST of a script, selects the
\* file whose locator the script selected.
C32_SelectorsAgree ==
    (/\ env.script.name \in {"backfill_from_2025_12_18", "catchup_company_yesterday"}
     /\ batch.recording_url # "-")
    => LET files == batch.recording_files
           chosen == choose_media_recording_file(files)
       IN  /\ chosen = 0 <=> batch.recording_url = ""
           /\ chosen > 0 => batch.recording_url = UrlOf(files[chosen])
           /\ \A d \in Deliveries :
                (Selected(d) /\ FilesOf(d) = files /\ dl[d].chosen > 0)
                => batch.recording_url = UrlOf(files[dl[d].chosen])

\* C33: a delivery that reaches the pre-check when a call exists for its
\* session ends there, as a duplicate or in an error, and writes nothing; a
\* delivery received after another one had created a call for the same
\* session and ended never sends an association, a stage update or a
\* completion marking, also when that other delivery aborted before it
\* evaluated the stage.
C33_NoLaterWritesOnceCallExists ==
    /\ [](\A d, e \in Deliveries :
            (/\ e \in dl[d].after /\ dl[e].call_id # 0
             /\ dl[d].zoom_meeting_id = dl[e].zoom_meeting_id)
            => /\ dl[d].log = <<>> /\ dl[d].call_id = 0 /\ dl[d].updated_deal_id = "-"
               /\ dl[d].pc \notin {"create_call_for_meeting", "associate_call_to_contacts",
                                   "associate_call_to_deals", "get_latest_deal",
                                   "get_latest_deal_from_contacts",
                                   "associate_call_to_contact_deal",
                                   "associate_meeting_to_deals", "update_deal_stage",
                                   "mark_meeting_completed"}
               /\ Done(d) => dl[d].status \in {"duplicate_ignored", "error_unhandled"})
    /\ [][\A d \in Deliveries :
            (/\ dl[d].pc = "find_existing_call" /\ dl'[d] # dl[d]
             /\ CallsOf(dl[d].zoom_meeting_id) # {})
            => /\ dl'[d].pc = "done"
               /\ dl'[d].status \in {"duplicate_ignored", "error_unhandled"}
               /\ dl'[d].log = <<>>
               /\ calls' = calls /\ callContacts' = callContacts /\ callDeals' = callDeals
               /\ meetingDeals' = meetingDeals /\ completed' = completed
               /\ dealStage' = dealStage]_vars

\* C33 witness: the delivery that created the call aborted before any stage
\* update; the same event delivered again ended as a duplicate, and the
\* meeting's Qualified deal is still Qualified and the meeting not completed.
C33_Witness ==
    \E d, e \in Deliveries :
        /\ e \in dl[d].after /\ dl[e].call_id # 0 /\ dl[e].status = "error_unhandled"
        /\ Issued(e, "update_deal_stage") = {}
        /\ dl[d].zoom_meeting_id = dl[e].zoom_meeting_id
        /\ Done(d) /\ dl[d].status = "duplicate_ignored"
        /\ \E k \in meetingDeals[dl[e].meeting_id] : dealStage[k] = DEAL_STAGE_QUALIFIED
        /\ dl[e].meeting_id \notin completed

\* C34: whenever a delivery applies a stage update, the stage the deal has in
\* the CRM at that moment is Qualified on the direct path, and Qualified or
\* Closed-Lost on the fallback path.
C34_StageAtUpdateIsEligible ==
    \A d \in Deliveries : \A i \in Issued(d, "update_deal_stage") :
        dl[d].log[i].out = "ok"
        => dl[d].log[i].was \in (IF dl[d].path = "direct"
                                 THEN {DEAL_STAGE_QUALIFIED}
                                 ELSE {DEAL_STAGE_QUALIFIED, DEAL_STAGE_CLOSED_LOST})

\* the meeting-deal associations the CRM holds before any delivery
InitialMeetingDeals == [s \in Sessions |-> IF s = "s1" THEN env.md ELSE {}]

\* delivery d is the only delivery received
OnlyDelivery(d) == \A e \in Deliveries \ {d} : dl[e].pc = "idle"

\* delivery d met no failure of a collaborator: it did not end in an error,
\* every CRM write it sent was answered ok, and neither deal lookup raised
NoCollaboratorFailure(d) ==
    /\ dl[d].status # "error_unhandled"
    /\ \A i \in 1..Len(dl[d].log) : dl[d].log[i].out = "ok"
    /\ dl[d].path = "fallback"
       => get_latest_deal(InitialMeetingDeals[dl[d].zoom_meeting_id]) = "-"
    /\ (dl[d].path = "fallback" /\ dl[d].deal_id = "-")
       => get_latest_deal_from_contacts(env.contacts[dl[d].zoom_meeting_id]) = "-"

\* C31: for a recording whose CRM meeting is matched and typed, delivered
\* once (so that no call exists) and handled without a collaborator failure,
\* the preview on the CRM state the delivery found reports update_stage or
\* associate_and_update_stage exactly when the delivery sent the stage
\* update for the deal the preview names, and reports associate_call /
\* associate_meeting exactly when the delivery sent the two fallback
\* associations for that deal.
C31_PreviewAgreesWithWebhook ==
    \A d \in Deliveries :
        (/\ Done(d) /\ OnlyDelivery(d)
         /\ dl[d].event = "recording.completed"
         /\ dl[d].zoom_meeting_id \in Sessions
         /\ env.activity[dl[d].zoom_meeting_id] = "typed"
         /\ NoCollaboratorFailure(d))
        => LET preview == PreviewOn([id |-> dl[d].zoom_meeting_id],
                                    InitialMeetingDeals, env.st)
           IN  /\ preview.action \in {"update_stage", "associate_and_update_stage"}
                  <=> \E i \in Issued(d, "update_deal_stage") :
                        dl[d].log[i].deal = preview.deal_id
               /\ preview.associate
                  <=> /\ \E i \in Issued(d, "associate_call_to_deals") :
                            dl[d].log[i].deal = preview.deal_id
                      /\ \E i \in Issued(d, "associate_meeting_to_deals") :
                            dl[d].log[i].deal = preview.deal_id

====
